---- MODULE Spec2Model ----
(***************************************************************************)
(* Presence, matching and realtime messaging core of soul-link-connect.    *)
(* The store (Supabase/Postgres with row level security) is modelled by    *)
(* the tables support_requests, chats and messages; every client handler   *)
(* is split at its awaits, one action per store round trip.                *)
(***************************************************************************)
EXTENDS Integers, Sequences, FiniteSets, TLC

\* ------------------------------------------------------------------ bounds
\* handler invocations that reach the store in one behaviour; every row of a
\* table is written by one of them
MaxCalls == 3

\* the longest list of helpers given to sortHelpersByDistance
MaxHelpers == 3

\* ------------------------------------------------------------------ users
Seekers == {"s1"}
Helpers == {"h1", "h2"}
Users == Seekers \cup Helpers
Clients == {"cs", "ch"}
NoUser == "none"
NoChat == 0

\* profiles.role
Role(u) == IF u \in Seekers THEN "seeker" ELSE "helper"

\* ------------------------------------------------------------------ texts
\* a text is a sequence of characters; " " is the only whitespace
Empty == << >>

RECURSIVE TrimStart(_)
TrimStart(t) == IF t # Empty /\ Head(t) = " " THEN TrimStart(Tail(t)) ELSE t

RECURSIVE TrimEnd(_)
TrimEnd(t) ==
  IF t # Empty /\ t[Len(t)] = " " THEN TrimEnd(SubSeq(t, 1, Len(t) - 1)) ELSE t

\* String.prototype.trim
Trim(t) == TrimEnd(TrimStart(t))

\* `${userProfile.name} accepted your support request`
AcceptNotice(u) == <<u, " ", "accepted your support request">>
\* `${userProfile.name} started a conversation`
StartNotice(u) == <<u, " ", "started a conversation">>

\* what a user types into the request dialog / the chat input
SupportTexts == {<<" ">>, <<"a", " ">>}
ChatTexts(c) == IF c = "cs" THEN {<<" ">>, <<" ", "a">>} ELSE {<<"b">>}

\* ------------------------------------------------------------------ geolocation
\* A location value is {kind, latitude, longitude}: kind is what typeof and the
\* value itself give ("null", "undefined", "string" or "object"); angles are
\* in whole degrees and only an "object" carries coordinates
NoLocation == [kind |-> "null", latitude |-> 0, longitude |-> 0]
Undefined == [kind |-> "undefined", latitude |-> 0, longitude |-> 0]
Text == [kind |-> "string", latitude |-> 0, longitude |-> 0]
Point(lat, lon) == [kind |-> "object", latitude |-> lat, longitude |-> lon]

\* Math.sin of 0..90 degrees, in 1/10000
SinTable ==
  <<
     0, 175, 349, 523, 698, 872, 1045, 1219, 1392, 1564,
     1736, 1908, 2079, 2250, 2419, 2588, 2756, 2924, 3090, 3256,
     3420, 3584, 3746, 3907, 4067, 4226, 4384, 4540, 4695, 4848,
     5000, 5150, 5299, 5446, 5592, 5736, 5878, 6018, 6157, 6293,
     6428, 6561, 6691, 6820, 6947, 7071, 7193, 7314, 7431, 7547,
     7660, 7771, 7880, 7986, 8090, 8192, 8290, 8387, 8480, 8572,
     8660, 8746, 8829, 8910, 8988, 9063, 9135, 9205, 9272, 9336,
     9397, 9455, 9511, 9563, 9613, 9659, 9703, 9744, 9781, 9816,
     9848, 9877, 9903, 9925, 9945, 9962, 9976, 9986, 9994, 9998,
     10000
  >>

\* Math.sin(d * (Math.PI / 180)), in 1/10000
Sin(d) ==
  LET r == d % 360
  IN IF r <= 90 THEN SinTable[r + 1]
     ELSE IF r <= 180 THEN SinTable[180 - r + 1]
     ELSE IF r <= 270 THEN 0 - SinTable[r - 180 + 1]
     ELSE 0 - SinTable[360 - r + 1]

\* Math.cos(d * (Math.PI / 180)), in 1/10000
Cos(d) == Sin(d + 90)

\* x / 2 of an angle difference (the coordinates of the model are even)
Half(x) == IF x >= 0 THEN x \div 2 ELSE 0 - ((0 - x) \div 2)

Abs(x) == IF x >= 0 THEN x ELSE 0 - x

\* Math.sqrt of n in 1/10^8, in 1/10000: the largest r in lo..hi with r*r <= n
RECURSIVE SqrtIn(_, _, _)
SqrtIn(n, lo, hi) ==
  IF lo = hi THEN lo
  ELSE LET mid == (lo + hi + 1) \div 2
       IN IF mid * mid <= n THEN SqrtIn(n, mid, hi) ELSE SqrtIn(n, lo, mid - 1)

Sqrt(n) == SqrtIn(n, 0, 14142)

\* Math.atan2(y, x) for y, x >= 0, in whole degrees: the angle of 0..best..90
\* whose direction is nearest to (x, y)
RECURSIVE Atan2From(_, _, _, _)
Atan2From(y, x, t, best) ==
  IF t > 90 THEN best
  ELSE IF Abs(y * Cos(t) - x * Sin(t)) < Abs(y * Cos(best) - x * Sin(best))
       THEN Atan2From(y, x, t + 1, t)
       ELSE Atan2From(y, x, t + 1, best)

Atan2(y, x) == Atan2From(y, x, 1, 0)

\* R: Earth's radius in kilometers
R == 6371

\* the haversine term with Math.cos of loc1's latitude taken twice
HaversineA_loc1(loc1, loc2) ==
  LET dLat == loc2.latitude - loc1.latitude
      dLon == loc2.longitude - loc1.longitude
  IN Sin(Half(dLat)) * Sin(Half(dLat))
       + ((Cos(loc1.latitude) * Cos(loc1.latitude)) \div 10000)
           * ((Sin(Half(dLon)) * Sin(Half(dLon))) \div 10000)

\* calculateDistance, in 1/100 km: the haversine formula; c is in degrees and
\* 349/20000 is Math.PI / 180
HaversineA(loc1, loc2) ==
  LET dLat == loc2.latitude - loc1.latitude
      dLon == loc2.longitude - loc1.longitude
  IN Sin(Half(dLat)) * Sin(Half(dLat))
       + ((Cos(loc1.latitude) * Cos(loc2.latitude)) \div 10000)
           * ((Sin(Half(dLon)) * Sin(Half(dLon))) \div 10000)

calculateDistance(loc1, loc2) ==
  LET a == HaversineA(loc1, loc2)
      c == 2 * Atan2(Sqrt(a), Sqrt(100000000 - a))
  IN (R * c * 349) \div 200

\* Math.round(distance * 10) / 10, in 1/100 km
Round1(d) == ((d + 5) \div 10) * 10

\* distance: null
NullDistance == 0 - 1

\* the .map of sortHelpersByDistance for a helper whose location is not null:
\* typeof helper.location === 'object' && helper.location.latitude
WithDistance(helper, userLocation) ==
  [id |-> helper.id, location |-> helper.location,
   distance |-> IF helper.location.kind = "object" /\ helper.location.latitude # 0
                THEN Round1(calculateDistance(userLocation, helper.location))
                ELSE NullDistance]

\* the comparator of the .sort
Compare(a, b) ==
  IF a.distance = NullDistance /\ b.distance # NullDistance THEN 1
  ELSE IF a.distance # NullDistance /\ b.distance = NullDistance THEN 0 - 1
  ELSE IF a.distance = NullDistance /\ b.distance = NullDistance THEN 0
  ELSE a.distance - b.distance

\* Array.prototype.sort is stable: x goes behind every element it does not
\* compare less than
RECURSIVE InsertSorted(_, _)
InsertSorted(x, sorted) ==
  IF sorted = << >> THEN <<x>>
  ELSE IF Compare(sorted[Len(sorted)], x) <= 0 THEN Append(sorted, x)
       ELSE Append(InsertSorted(x, SubSeq(sorted, 1, Len(sorted) - 1)),
                   sorted[Len(sorted)])

RECURSIVE StableSort(_)
StableSort(list) ==
  IF list = << >> THEN << >>
  ELSE InsertSorted(list[Len(list)], StableSort(SubSeq(list, 1, Len(list) - 1)))

\* a sortHelpersByDistance without `if (!userLocation) return helpers`
sortHelpersByDistance_always(helpers, userLocation) ==
  IF \E i \in 1..Len(helpers) : helpers[i].location.kind = "null"
  THEN [status |-> "TypeError", value |-> << >>]
  ELSE [status |-> "returned",
        value |-> StableSort([i \in 1..Len(helpers) |->
                               WithDistance(helpers[i], userLocation)])]

\* sortHelpersByDistance: null.latitude throws a TypeError
sortHelpersByDistance(helpers, userLocation) ==
  IF userLocation.kind \in {"null", "undefined"}
  THEN [status |-> "returned", value |-> helpers]
  ELSE IF \E i \in 1..Len(helpers) : helpers[i].location.kind = "null"
       THEN [status |-> "TypeError", value |-> << >>]
       ELSE [status |-> "returned",
             value |-> StableSort([i \in 1..Len(helpers) |->
                                    WithDistance(helpers[i], userLocation)])]

\* ------------------------------------------------------------------ state
VARIABLES
  support_requests,  \* table public.support_requests, id = index
  chats,             \* table public.chats, id = index
  messages,          \* table public.messages, id = index (insertion order)
  now,               \* the store's clock, the source of messages.created_at
  userProfile,       \* AuthContext.userProfile of each client (its id)
  requests,          \* HelperDashboard state: rows of the last fetchRequests
  selectedChat,      \* dashboard state: the chat shown in a ChatWindow
  loading,           \* SeekerDashboard state
  supportMessage,    \* SeekerDashboard state: the request dialog's textarea
  selectedHelper,    \* SeekerDashboard state: the helper of the open dialog
  newMessage,        \* ChatWindow state: the input field
  lastSubmit,        \* history: what the last submit did with the field's text
  chatMessages,      \* ChatWindow state `messages`: the displayed list (ids)
  fetches,           \* fetchMessages calls of a ChatWindow still in flight
  channel,           \* the messages-${chatId} realtime channel of a ChatWindow
  mountedAt,         \* history: length of the log when the effect last ran
  calls,             \* the handler invocations in flight (between two awaits)
  started,           \* the number of handler invocations so far
  toast,             \* the last toast shown by each client
  profiles,          \* table public.profiles: is_online, last_seen, is_available
  tracked,           \* the userProfile the online status effect last ran with
  isAvailable,       \* HelperDashboard state
  lastTrigger,       \* history: the last logout or window event of each client
  rankArgs,          \* sortHelpersByDistance: the arguments of the call
  rankResult,        \* sortHelpersByDistance: what the call returned or threw
  distArgs,          \* calculateDistance: the arguments of the call
  distResult,        \* calculateDistance: what the call returned
  listArgs,          \* fetchHelpers: the profiles table and the dashboard's filter
  helpers,           \* SeekerDashboard state: rows of the last fetchHelpers
  formData,          \* AuthFlow state of a visitor's browser, in sign-up mode
  newUser,           \* the visitor's sign-up: the auth.users row and its profile
  profilesChannel,   \* the profile-${otherUser.id} realtime channel of a ChatWindow
  otherUserOnline,   \* ChatWindow state
  latest,            \* history: the received profile event with the greatest last_seen
  windowChannels,    \* the channels of the client that a ChatWindow opened
  dashboardChannels, \* the channels of the client that a dashboard opened
  helpersChannel     \* the helpers-changes realtime channel of SeekerDashboard

storeVars == <<support_requests, chats, messages, now>>

dashVars == <<requests, loading, supportMessage, selectedHelper>>

\* the state of a ChatWindow, which opening or closing a chat resets
windowVars == <<newMessage, lastSubmit, chatMessages, fetches, channel, mountedAt>>

\* the presence channel of a ChatWindow and what it shows
windowChan == <<profilesChannel, otherUserOnline, latest, windowChannels>>

\* the channels of a dashboard
dashChan == <<dashboardChannels, helpersChannel>>

chanVars == <<windowChan, dashChan>>

\* what the presence handlers write
presVars == <<profiles, tracked, isAvailable, lastTrigger>>

\* the calls of the utilities of utils/geolocation.ts
signupVars == <<formData, newUser>>
utilVars == <<rankArgs, rankResult, distArgs, distResult, listArgs, helpers, signupVars>>

vars == <<storeVars, userProfile, dashVars, selectedChat, windowVars, chanVars, calls,
          started, toast, presVars, utilVars>>

CallIds == 1..MaxCalls

IdleCall == [op |-> "none", client |-> "none", self |-> NoUser, other |-> NoUser,
             req |-> 0, msg |-> Empty, pc |-> "idle", chatId |-> NoChat,
             mounted |-> FALSE, value |-> FALSE]

\* a handler is invoked and runs up to its first await
Begin(call) ==
  /\ started < MaxCalls
  /\ started' = started + 1
  /\ calls' = [calls EXCEPT ![started + 1] = call]

\* a handler returns after showing toast t
Finish(k, t) ==
  /\ calls' = [calls EXCEPT ![k] = IdleCall]
  /\ toast' = [toast EXCEPT ![calls[k].client] = t]
  /\ UNCHANGED started

\* a handler goes on to its next await
Goto(k, pc) ==
  /\ calls' = [calls EXCEPT ![k].pc = pc]
  /\ UNCHANGED <<started, toast>>

\* ------------------------------------------------------------------ store
Participants(chat) == {chat.participants[1], chat.participants[2]}

\* .from('chats').select('*').contains('participants',[a]).contains('participants',[b])
\* under the policy "Users can view their chats"
SelectChats(uid, a, b) ==
  {i \in 1..Len(chats) : /\ uid \in Participants(chats[i])
                         /\ a \in Participants(chats[i])
                         /\ b \in Participants(chats[i])}

\* policy "Users can create chats": WITH CHECK (auth.uid() = ANY(participants))
MayInsertChat(uid, chat) == uid \in Participants(chat)

\* policy "Helpers can update support requests": USING (auth.uid() = helper_id);
\* a row the policy hides is not updated and no error is returned
UpdateStatus(uid, id, st) ==
  [i \in 1..Len(support_requests) |->
     IF i = id /\ support_requests[i].helper_id = uid
     THEN [support_requests[i] EXCEPT !.status = st]
     ELSE support_requests[i]]

\* policy "Seekers can create support requests": WITH CHECK (auth.uid() = seeker_id)
MayInsertRequest(uid, row) == uid = row.seeker_id

\* .from('support_requests').select('*').eq('helper_id', uid) under the policy
\* "Users can view their support requests"
SelectRequests(uid) ==
  {[id |-> i, seeker_id |-> support_requests[i].seeker_id,
    helper_id |-> support_requests[i].helper_id,
    status |-> support_requests[i].status] :
     i \in {j \in 1..Len(support_requests) :
              /\ support_requests[j].helper_id = uid
              /\ uid \in {support_requests[j].seeker_id, support_requests[j].helper_id}}}

\* an insert policy on messages that admits every user
MayInsertMessage_anyone(uid, row) == row.chat_id \in 1..Len(chats)

\* policy "Users can insert messages in their chats"; chat_id references chats(id)
MayInsertMessage(uid, row) ==
  /\ uid = row.sender_id
  /\ row.chat_id \in 1..Len(chats)
  /\ uid \in Participants(chats[row.chat_id])

\* an insert that replaces the newest row of the table instead of adding one
InsertMessage_upsert(row) ==
  IF messages = << >> THEN <<row>> ELSE [messages EXCEPT ![Len(messages)] = row]

\* .from('messages').insert(row): the table gets a new row with a fresh id; no
\* policy of the table allows UPDATE or DELETE and no handler issues either
InsertMessage(row) == Append(messages, row)

\* .from('messages').select('*').eq('chat_id', chat) under the policy
\* "Users can view messages in their chats"
ChatLog(uid, chat) ==
  {i \in 1..Len(messages) : /\ messages[i].chat_id = chat
                            /\ chat \in 1..Len(chats)
                            /\ uid \in Participants(chats[chat])}

\* .order('created_at', {ascending: true}): every order of the rows that is
\* ascending in created_at; rows of equal created_at come in any order
SortedReads(S) ==
  {p \in [1..Cardinality(S) -> S] :
     /\ \A i, j \in 1..Cardinality(S) : i # j => p[i] # p[j]
     /\ \A i, j \in 1..Cardinality(S) :
          i < j => messages[p[i]].created_at <= messages[p[j]].created_at}

\* an update whose payload also carries participants: [uid]
UpdateLastMessage_alone(uid, id, text) ==
  [i \in 1..Len(chats) |->
     IF i = id /\ uid \in Participants(chats[i])
     THEN [chats[i] EXCEPT !.last_message = text, !.last_message_time = @ + 1,
                           !.participants = <<uid, uid>>]
     ELSE chats[i]]

\* .from('chats').update({last_message, last_message_time}).eq('id', id) under the
\* policy "Users can update their chats"; a hidden row is silently not updated.
\* last_message_time (new Date() of the writer) is kept as the number of the
\* write: every write of a chat's snapshot carries a later time than the last
UpdateLastMessage(uid, id, text) ==
  [i \in 1..Len(chats) |->
     IF i = id /\ uid \in Participants(chats[i])
     THEN [chats[i] EXCEPT !.last_message = text, !.last_message_time = @ + 1]
     ELSE chats[i]]

\* the update of a profile without row level security
UpdateProfile_any(uid, id, row) ==
  [u \in Users |-> IF u = id THEN row ELSE profiles[u]]

\* .from('profiles').update(fields).eq('id', id) under the policy "Users can
\* update their own profile": USING (auth.uid() = id); a row the policy hides
\* is not updated and no error is returned
UpdateProfile(uid, id, row) ==
  [u \in Users |-> IF u = id /\ uid = id THEN row ELSE profiles[u]]

\* new Date() of the k-th handler invocation: invocations are numbered in the
\* order of the time at which they start
Date(k) == k

\* postgres_changes INSERT on messages with filter chat_id=eq.${chatId}: the
\* row is queued on every channel that is subscribed at the time of the insert
Broadcast(id, row) ==
  [c \in Clients |->
     IF /\ channel[c].st = "active"
        /\ channel[c].chat = row.chat_id
        /\ userProfile[c] \in Participants(chats[row.chat_id])
     THEN [channel[c] EXCEPT !.queue = Append(@, id)]
     ELSE channel[c]]

\* ------------------------------------------------------------------ presence channels
\* no profile channel, and no profile event received
NoProfileChannel == [st |-> "off", user |-> NoUser, queue |-> << >>]
NoEvent == [is_online |-> FALSE, last_seen |-> 0 - 1]

\* supabase.channel('messages-${chatId}') and supabase.channel('profile-${id}')
MessagesTopic(id) == [topic |-> "messages", chat |-> id, user |-> NoUser]
ProfileTopic(u) == [topic |-> "profile", chat |-> NoChat, user |-> u]

\* the cleanup of a ChatWindow effect that removes the messages channel only
ChatWindow_cleanup_messages(c) ==
  windowChannels[c] \ {MessagesTopic(selectedChat[c])}

\* the cleanup of the ChatWindow effect: removeChannel(messagesChannel) and
\* removeChannel(profilesChannel), the two channels of that run of the effect
ChatWindow_cleanup(c) ==
  windowChannels[c] \ {MessagesTopic(selectedChat[c]),
                        ProfileTopic(profilesChannel[c].user)}

\* the channels a dashboard effect opens for userProfile.id = u: SeekerDashboard
\* helpers-changes, chats-changes and support-requests-changes (filter
\* seeker_id), HelperDashboard helper-requests-changes (filter helper_id) and
\* helper-chats-changes; none without a profile
DashboardChannels(u) ==
  IF u = NoUser THEN {}
  ELSE IF Role(u) = "seeker"
       THEN {[topic |-> "helpers-changes", chat |-> NoChat, user |-> NoUser],
             [topic |-> "chats-changes", chat |-> NoChat, user |-> NoUser],
             [topic |-> "support-requests-changes", chat |-> NoChat, user |-> u]}
       ELSE {[topic |-> "helper-requests-changes", chat |-> NoChat, user |-> u],
             [topic |-> "helper-chats-changes", chat |-> NoChat, user |-> NoUser]}

\* the helpers-changes channel of a dashboard for userProfile.id = u
HelpersChannel(u) ==
  [st |-> IF u # NoUser /\ Role(u) = "seeker" THEN "joining" ELSE "off",
   queue |-> << >>]

\* a dashboard effect whose cleanup removes the requests channel only
Dashboard_effect_requests(c, u) ==
  (dashboardChannels[c]
     \ {t \in DashboardChannels(userProfile[c]) : t.user # NoUser})
  \cup DashboardChannels(u)

\* the dashboard effect on [userProfile?.id] when the profile becomes u: the
\* cleanup of the last run removes the channels that run opened, then the
\* body opens the channels for u
Dashboard_effect(c, u) ==
  (dashboardChannels[c] \ DashboardChannels(userProfile[c]))
  \cup DashboardChannels(u)

\* postgres_changes UPDATE on profiles with filter id=eq.${otherUser.id}: an
\* update that the policy lets through queues the new row on every channel
\* that is subscribed to that user at the time
NotifyProfile(uid, id, row) ==
  [c \in Clients |->
     IF uid = id /\ profilesChannel[c].st = "active" /\ profilesChannel[c].user = id
     THEN [profilesChannel[c] EXCEPT
             !.queue = Append(@, [is_online |-> row.is_online,
                                  last_seen |-> row.last_seen])]
     ELSE profilesChannel[c]]

\* the notification that leaves out the seeker's dashboard
NotifyHelpers_none(uid, id) == helpersChannel

\* postgres_changes * on profiles with filter role=eq.helper
NotifyHelpers(uid, id) ==
  [c \in Clients |->
     IF uid = id /\ Role(id) = "helper" /\ helpersChannel[c].st = "active"
     THEN [helpersChannel[c] EXCEPT !.queue = Append(@, id)]
     ELSE helpersChannel[c]]

\* ------------------------------------------------------------------ Init
NoChannel == [st |-> "off", chat |-> NoChat, queue |-> << >>]

\* the tables but profiles, the two browsers and their dashboards
InitBrowsers ==
  /\ support_requests = << >>
  /\ chats = << >>
  /\ messages = << >>
  /\ now = 0
  /\ userProfile = [c \in Clients |-> IF c = "cs" THEN "s1" ELSE "h1"]
  /\ requests = [c \in Clients |-> {}]
  /\ selectedChat = [c \in Clients |-> NoChat]
  /\ loading = [c \in Clients |-> FALSE]
  /\ supportMessage = [c \in Clients |-> Empty]
  /\ selectedHelper = [c \in Clients |-> NoUser]
  /\ newMessage = [c \in Clients |-> Empty]
  /\ lastSubmit = [c \in Clients |-> "none"]
  /\ chatMessages = [c \in Clients |-> << >>]
  /\ fetches = [c \in Clients |-> {}]
  /\ channel = [c \in Clients |-> NoChannel]
  /\ mountedAt = [c \in Clients |-> 0]
  /\ calls = [k \in CallIds |-> IdleCall]
  /\ started = 0
  /\ toast = [c \in Clients |-> "none"]
  /\ profilesChannel = [c \in Clients |-> NoProfileChannel]
  /\ otherUserOnline = [c \in Clients |-> FALSE]
  /\ latest = [c \in Clients |-> NoEvent]
  /\ windowChannels = [c \in Clients |-> {}]
  /\ dashboardChannels =
       [c \in Clients |-> DashboardChannels(IF c = "cs" THEN "s1" ELSE "h1")]
  /\ helpersChannel = [c \in Clients |-> HelpersChannel(IF c = "cs" THEN "s1" ELSE "h1")]
  /\ tracked = [c \in Clients |-> IF c = "cs" THEN "s1" ELSE "h1"]
  /\ isAvailable = [c \in Clients |-> FALSE]
  /\ lastTrigger = [c \in Clients |-> "none"]

\* the profiles of the users who are signed in, before any write
InitApp ==
  /\ InitBrowsers
  /\ profiles = [u \in Users |-> [is_online |-> u \in {"s1", "h1"},
                                  last_seen |-> 0, is_available |-> FALSE]]

\* profiles without name, location and languages, and a dashboard whose
\* search field and language select are empty
NoListArgs ==
  [columns |-> [u \in Users |-> [name |-> Empty, location |-> NoLocation,
                                 languages |-> {}]],
   searchTerm |-> Empty, selectedLanguage |-> ""]

\* AuthFlow's useState initial formData, of which the model keeps the fields
\* that decide what handle_new_user stores
NoFormData ==
  [name |-> Empty, gender |-> "other", role |-> "seeker", isAvailable |-> FALSE]

\* nobody has signed up from the visitor's browser
NoNewUser ==
  [status |-> "none", isLoading |-> FALSE, raw_user_meta_data |-> << >>,
   profile |-> << >>, toast |-> ""]

NoSignup == formData = NoFormData /\ newUser = NoNewUser

\* no utility is being called
NoUtil ==
  /\ rankArgs = [helpers |-> << >>, userLocation |-> NoLocation]
  /\ rankResult = [status |-> "none", value |-> << >>]
  /\ distArgs = [loc1 |-> NoLocation, loc2 |-> NoLocation]
  /\ distResult = [status |-> "none", value |-> 0]
  /\ listArgs = NoListArgs
  /\ helpers = [status |-> "none", value |-> << >>]
  /\ NoSignup

Init == InitApp /\ NoUtil

\* ------------------------------------------------------------------ AuthContext
\* a change of account after which the store marks the account that left offline
onAuthStateChange_expiry(c, u) ==
  /\ userProfile[c] # NoUser
  /\ u # userProfile[c]
  /\ Role(u) = Role(userProfile[c])
  /\ userProfile' = [userProfile EXCEPT ![c] = u]
  /\ profiles' = [profiles EXCEPT ![userProfile[c]].is_online = FALSE]
  /\ dashboardChannels' = [dashboardChannels EXCEPT ![c] = Dashboard_effect(c, u)]
  /\ helpersChannel' = [helpersChannel EXCEPT ![c] = HelpersChannel(u)]
  /\ UNCHANGED <<utilVars, storeVars, tracked, isAvailable, lastTrigger, dashVars,
                 selectedChat, windowVars, windowChan, calls, started, toast>>

\* onAuthStateChange: another account of the same role signs in on this
\* browser; the mounted dashboard keeps its state and gets the new profile
onAuthStateChange(c, u) ==
  /\ userProfile[c] # NoUser
  /\ u # userProfile[c]
  /\ Role(u) = Role(userProfile[c])
  /\ userProfile' = [userProfile EXCEPT ![c] = u]
  /\ dashboardChannels' = [dashboardChannels EXCEPT ![c] = Dashboard_effect(c, u)]
  /\ helpersChannel' = [helpersChannel EXCEPT ![c] = HelpersChannel(u)]
  /\ UNCHANGED <<utilVars, storeVars, presVars, dashVars, selectedChat, windowVars,
                 windowChan, calls, started, toast>>

\* ------------------------------------------------------------------ ChatWindow mount
\* setSelectedChat({chatId, otherUser}): the dashboard renders <ChatWindow .../>
\* and the effect on [chatId, otherUser.id] runs: the cleanup of the last run
\* removes its two channels, fetchMessages() is called and the messages
\* channel and the profile channel are subscribed; a window that mounts starts
\* with useState(otherUser.isOnline || false); an unchanged chatId runs nothing
OpenChat(c, id, otherUser) ==
  IF selectedChat[c] = id
  THEN UNCHANGED <<selectedChat, windowVars, chanVars>>
  ELSE /\ selectedChat' = [selectedChat EXCEPT ![c] = id]
       /\ profilesChannel' = [profilesChannel EXCEPT ![c] =
                                [NoProfileChannel EXCEPT !.st = "joining",
                                                         !.user = otherUser.id]]
       /\ otherUserOnline' = IF selectedChat[c] = NoChat
                             THEN [otherUserOnline EXCEPT ![c] = otherUser.isOnline]
                             ELSE otherUserOnline
       /\ latest' = [latest EXCEPT ![c] = NoEvent]
       /\ windowChannels' = [windowChannels EXCEPT ![c] =
                               ChatWindow_cleanup(c)
                               \cup {MessagesTopic(id), ProfileTopic(otherUser.id)}]
       /\ UNCHANGED dashChan
       /\ fetches' = [fetches EXCEPT ![c] =
                        @ \cup {[chat |-> id, st |-> "pending", data |-> << >>]}]
       /\ channel' = [channel EXCEPT ![c] =
                        [st |-> "joining", chat |-> id, queue |-> << >>]]
       /\ mountedAt' = [mountedAt EXCEPT ![c] = Len(messages)]
       /\ UNCHANGED <<newMessage, lastSubmit, chatMessages>>

\* the Chat button of an entry of activeChats (the chats of fetchActiveChats)
openExistingChat(c, id) ==
  /\ userProfile[c] # NoUser
  /\ selectedChat[c] = NoChat
  /\ id \in 1..Len(chats)
  /\ userProfile[c] \in Participants(chats[id])
  /\ OpenChat(c, id, [id |-> CHOOSE u \in Users :
                                u \in Participants(chats[id]) /\ u # userProfile[c],
                      isOnline |-> FALSE])
  /\ UNCHANGED <<storeVars, userProfile, utilVars, presVars, dashVars, calls, started, toast>>

\* ChatWindow onClose={() => setSelectedChat(null)}: the window unmounts, its
\* state is dropped, the effect's cleanup removes the channel, and what a
\* handler of the old window sets later has no effect
onClose(c) ==
  /\ selectedChat[c] # NoChat
  /\ selectedChat' = [selectedChat EXCEPT ![c] = NoChat]
  /\ newMessage' = [newMessage EXCEPT ![c] = Empty]
  /\ lastSubmit' = [lastSubmit EXCEPT ![c] = "none"]
  /\ chatMessages' = [chatMessages EXCEPT ![c] = << >>]
  /\ fetches' = [fetches EXCEPT ![c] = {}]
  /\ channel' = [channel EXCEPT ![c] = NoChannel]
  /\ profilesChannel' = [profilesChannel EXCEPT ![c] = NoProfileChannel]
  /\ otherUserOnline' = [otherUserOnline EXCEPT ![c] = FALSE]
  /\ latest' = [latest EXCEPT ![c] = NoEvent]
  /\ windowChannels' = [windowChannels EXCEPT ![c] = ChatWindow_cleanup(c)]
  /\ calls' = [k \in CallIds |->
                 IF calls[k].op = "send" /\ calls[k].client = c
                 THEN [calls[k] EXCEPT !.mounted = FALSE] ELSE calls[k]]
  /\ UNCHANGED <<storeVars, userProfile, utilVars, presVars, dashVars, dashChan, mountedAt,
                 started, toast>>

\* ------------------------------------------------------------------ HelperDashboard
\* requests.filter(req => req.status === 'pending')
pendingRequests(c) == {r \in requests[c] : r.status = "pending"}

fetchRequests(c) ==
  /\ userProfile[c] # NoUser
  /\ Role(userProfile[c]) = "helper"
  /\ requests' = [requests EXCEPT ![c] = SelectRequests(userProfile[c])]
  /\ UNCHANGED <<storeVars, userProfile, utilVars, presVars, loading, supportMessage, selectedHelper,
                 selectedChat, windowVars, chanVars, calls, started, toast>>

\* the click on Accept of a pending request card
handleAcceptRequest(c, r) ==
  /\ userProfile[c] # NoUser
  /\ Role(userProfile[c]) = "helper"
  /\ selectedChat[c] = NoChat
  /\ r \in pendingRequests(c)
  /\ Begin([IdleCall EXCEPT !.op = "accept", !.client = c,
                            !.self = userProfile[c], !.other = r.seeker_id,
                            !.req = r.id, !.pc = "update"])
  /\ UNCHANGED <<storeVars, userProfile, utilVars, presVars, dashVars, selectedChat, windowVars, chanVars, toast>>

\* catch: toast.error('Failed to accept request')
AcceptFailed(k) == Finish(k, "Failed to accept request")

\* toast.success('Request accepted! Chat started.'); setSelectedChat({chatId, ...})
AcceptOpened(k, id) ==
  /\ Finish(k, "Request accepted! Chat started.")
  /\ OpenChat(calls[k].client, id, [id |-> calls[k].other, isOnline |-> FALSE])

\* await supabase.from('support_requests').update({status:'accepted'}).eq('id', request.id)
handleAcceptRequest_update(k, ok) ==
  /\ calls[k].op = "accept" /\ calls[k].pc = "update"
  /\ IF ok
     THEN /\ support_requests' =
               UpdateStatus(userProfile[calls[k].client], calls[k].req, "accepted")
          /\ Goto(k, "select")
     ELSE /\ AcceptFailed(k)
          /\ UNCHANGED support_requests
  /\ UNCHANGED <<chats, messages, now, userProfile, utilVars, presVars, dashVars, selectedChat,
                 windowVars, chanVars>>

\* await supabase.from('chats').select('*').contains(...).contains(...)
handleAcceptRequest_select(k, ok) ==
  /\ calls[k].op = "accept" /\ calls[k].pc = "select"
  /\ LET existingChats ==
           SelectChats(userProfile[calls[k].client], calls[k].self, calls[k].other)
     IN IF ~ok
        THEN AcceptFailed(k) /\ UNCHANGED <<selectedChat, windowVars, chanVars>>
        ELSE IF existingChats # {}
             THEN \E id \in existingChats : AcceptOpened(k, id)
             ELSE Goto(k, "insert") /\ UNCHANGED <<selectedChat, windowVars, chanVars>>
  /\ UNCHANGED <<storeVars, userProfile, utilVars, presVars, dashVars>>

\* await supabase.from('chats').insert({...}).select().single()
handleAcceptRequest_insert(k, ok) ==
  /\ calls[k].op = "accept" /\ calls[k].pc = "insert"
  /\ LET newChat == [participants |-> <<calls[k].self, calls[k].other>>,
                     last_message |-> AcceptNotice(calls[k].self),
                     last_message_time |-> 0]
     IN IF ok /\ MayInsertChat(userProfile[calls[k].client], newChat)
        THEN /\ chats' = Append(chats, newChat)
             /\ AcceptOpened(k, Len(chats) + 1)
        ELSE /\ AcceptFailed(k)
             /\ UNCHANGED <<chats, selectedChat, windowVars, chanVars>>
  /\ UNCHANGED <<support_requests, messages, now, userProfile, utilVars, presVars, dashVars>>

\* the click on Decline of a pending request card
handleDeclineRequest(c, r) ==
  /\ userProfile[c] # NoUser
  /\ Role(userProfile[c]) = "helper"
  /\ selectedChat[c] = NoChat
  /\ r \in pendingRequests(c)
  /\ Begin([IdleCall EXCEPT !.op = "decline", !.client = c,
                            !.self = userProfile[c], !.other = r.seeker_id,
                            !.req = r.id, !.pc = "update"])
  /\ UNCHANGED <<storeVars, userProfile, utilVars, presVars, dashVars, selectedChat, windowVars, chanVars, toast>>

\* a decline that also creates the chat of the pair
handleDeclineRequest_update_chat(k, ok) ==
  /\ calls[k].op = "decline" /\ calls[k].pc = "update"
  /\ ok
  /\ support_requests' =
       UpdateStatus(userProfile[calls[k].client], calls[k].req, "declined")
  /\ chats' = Append(chats, [participants |-> <<calls[k].self, calls[k].other>>,
                             last_message |-> AcceptNotice(calls[k].self),
                             last_message_time |-> 0])
  /\ Finish(k, "Request declined")
  /\ UNCHANGED <<messages, now, userProfile, utilVars, presVars, dashVars, selectedChat, windowVars, chanVars>>

\* await supabase.from('support_requests').update({status:'declined'}).eq('id', requestId)
handleDeclineRequest_update(k, ok) ==
  /\ calls[k].op = "decline" /\ calls[k].pc = "update"
  /\ IF ok
     THEN /\ support_requests' =
               UpdateStatus(userProfile[calls[k].client], calls[k].req, "declined")
          /\ Finish(k, "Request declined")
     ELSE /\ Finish(k, "Failed to decline request")
          /\ UNCHANGED support_requests
  /\ UNCHANGED <<chats, messages, now, userProfile, utilVars, presVars, dashVars, selectedChat,
                 windowVars, chanVars>>

\* ------------------------------------------------------------------ SeekerDashboard
\* onChange={(e) => setSupportMessage(e.target.value)}
setSupportMessage(c, t) ==
  /\ userProfile[c] # NoUser
  /\ Role(userProfile[c]) = "seeker"
  /\ selectedHelper[c] # NoUser
  /\ supportMessage[c] # t
  /\ supportMessage' = [supportMessage EXCEPT ![c] = t]
  /\ UNCHANGED <<storeVars, userProfile, utilVars, presVars, requests, loading, selectedHelper,
                 selectedChat, windowVars, chanVars, calls, started, toast>>

\* the Request Help button: onClick={() => setSelectedHelper(helper)}
setSelectedHelper(c, h) ==
  /\ userProfile[c] # NoUser
  /\ Role(userProfile[c]) = "seeker"
  /\ selectedChat[c] = NoChat
  /\ selectedHelper[c] = NoUser
  /\ selectedHelper' = [selectedHelper EXCEPT ![c] = h]
  /\ UNCHANGED <<storeVars, userProfile, utilVars, presVars, requests, loading, supportMessage,
                 selectedChat, windowVars, chanVars, calls, started, toast>>

\* handleRequestSupport without the check of its input
handleRequestSupport_unchecked(c) ==
  /\ userProfile[c] # NoUser
  /\ Role(userProfile[c]) = "seeker"
  /\ selectedChat[c] = NoChat
  /\ ~loading[c]
  /\ selectedHelper[c] # NoUser
  /\ Begin([IdleCall EXCEPT !.op = "request", !.client = c,
                            !.self = userProfile[c],
                            !.other = selectedHelper[c],
                            !.msg = Trim(supportMessage[c]),
                            !.pc = "insert"])
  /\ loading' = [loading EXCEPT ![c] = TRUE]
  /\ UNCHANGED <<storeVars, userProfile, utilVars, presVars, requests, supportMessage, selectedHelper,
                 selectedChat, windowVars, chanVars, toast>>

\* Send Request (no second call while loading): the handler checks its input
\* itself, whatever the button's own disabled state, and runs up to the await
\* of the insert
handleRequestSupport(c) ==
  /\ userProfile[c] # NoUser
  /\ Role(userProfile[c]) = "seeker"
  /\ selectedChat[c] = NoChat
  /\ ~loading[c]
  /\ IF Trim(supportMessage[c]) = Empty \/ selectedHelper[c] = NoUser
     THEN /\ toast' = [toast EXCEPT ![c] = "Please enter a message"]
          /\ UNCHANGED <<loading, calls, started>>
     ELSE /\ Begin([IdleCall EXCEPT !.op = "request", !.client = c,
                                    !.self = userProfile[c],
                                    !.other = selectedHelper[c],
                                    !.msg = Trim(supportMessage[c]),
                                    !.pc = "insert"])
          /\ loading' = [loading EXCEPT ![c] = TRUE]
          /\ UNCHANGED toast
  /\ UNCHANGED <<storeVars, userProfile, utilVars, presVars, requests, supportMessage, selectedHelper,
                 selectedChat, windowVars, chanVars>>

\* a handler whose catch block empties the dialog
handleRequestSupport_insert_cleared(k, ok) ==
  /\ calls[k].op = "request" /\ calls[k].pc = "insert"
  /\ LET c == calls[k].client
         row == [seeker_id |-> calls[k].self, helper_id |-> calls[k].other,
                 message |-> calls[k].msg, status |-> "pending"]
     IN /\ IF ok /\ MayInsertRequest(userProfile[c], row)
           THEN /\ support_requests' = Append(support_requests, row)
                /\ Finish(k, "Support request sent to ${selectedHelper.name}!")
           ELSE /\ Finish(k, "Failed to send support request")
                /\ UNCHANGED support_requests
        /\ supportMessage' = [supportMessage EXCEPT ![c] = Empty]
        /\ selectedHelper' = [selectedHelper EXCEPT ![c] = NoUser]
        /\ loading' = [loading EXCEPT ![c] = FALSE]
  /\ UNCHANGED <<chats, messages, now, userProfile, utilVars, presVars, requests, selectedChat,
                 windowVars, chanVars>>

\* await supabase.from('support_requests').insert({...}), then the rest of the handler
handleRequestSupport_insert(k, ok) ==
  /\ calls[k].op = "request" /\ calls[k].pc = "insert"
  /\ LET c == calls[k].client
         row == [seeker_id |-> calls[k].self, helper_id |-> calls[k].other,
                 message |-> calls[k].msg, status |-> "pending"]
     IN /\ IF ok /\ MayInsertRequest(userProfile[c], row)
           THEN /\ support_requests' = Append(support_requests, row)
                /\ supportMessage' = [supportMessage EXCEPT ![c] = Empty]
                /\ selectedHelper' = [selectedHelper EXCEPT ![c] = NoUser]
                /\ Finish(k, "Support request sent to ${selectedHelper.name}!")
           ELSE /\ Finish(k, "Failed to send support request")
                /\ UNCHANGED <<support_requests, supportMessage, selectedHelper>>
        /\ loading' = [loading EXCEPT ![c] = FALSE]
  /\ UNCHANGED <<chats, messages, now, userProfile, utilVars, presVars, requests, selectedChat,
                 windowVars, chanVars>>

\* the click on Chat of a helper card (the button is disabled while loading)
handleDirectChat(c, h) ==
  /\ userProfile[c] # NoUser
  /\ Role(userProfile[c]) = "seeker"
  /\ selectedChat[c] = NoChat
  /\ ~loading[c]
  /\ Begin([IdleCall EXCEPT !.op = "direct", !.client = c,
                            !.self = userProfile[c], !.other = h,
                            !.pc = "select"])
  /\ loading' = [loading EXCEPT ![c] = TRUE]
  /\ UNCHANGED <<storeVars, userProfile, utilVars, presVars, requests, supportMessage, selectedHelper,
                 selectedChat, windowVars, chanVars, toast>>

\* the helper of a card of the dashboard: its row of the last fetchHelpers, or
\* its profile where the model does not follow the list
HelperCard(h) ==
  IF \E i \in 1..Len(helpers.value) : helpers.value[i].id = h
  THEN helpers.value[CHOOSE i \in 1..Len(helpers.value) : helpers.value[i].id = h]
  ELSE profiles[h]

\* catch: toast.error('Failed to start chat'); finally: setLoading(false)
DirectFailed(k) ==
  /\ Finish(k, "Failed to start chat")
  /\ loading' = [loading EXCEPT ![calls[k].client] = FALSE]

\* setSelectedChat({chatId, ...}); toast.success(...); finally: setLoading(false)
DirectOpened(k, id) ==
  /\ Finish(k, "Chat started with ${helper.name}")
  /\ OpenChat(calls[k].client, id,
              [id |-> calls[k].other, isOnline |-> HelperCard(calls[k].other).is_online])
  /\ loading' = [loading EXCEPT ![calls[k].client] = FALSE]

\* await supabase.from('chats').select('*').contains(...).contains(...)
handleDirectChat_select(k, ok) ==
  /\ calls[k].op = "direct" /\ calls[k].pc = "select"
  /\ LET existingChats ==
           SelectChats(userProfile[calls[k].client], calls[k].self, calls[k].other)
     IN IF ~ok
        THEN DirectFailed(k) /\ UNCHANGED <<selectedChat, windowVars, chanVars>>
        ELSE IF existingChats # {}
             THEN \E id \in existingChats : DirectOpened(k, id)
             ELSE Goto(k, "insert") /\ UNCHANGED <<loading, selectedChat, windowVars, chanVars>>
  /\ UNCHANGED <<storeVars, userProfile, utilVars, presVars, requests, supportMessage, selectedHelper>>

\* await supabase.from('chats').insert({...}).select().single()
handleDirectChat_insert(k, ok) ==
  /\ calls[k].op = "direct" /\ calls[k].pc = "insert"
  /\ LET newChat == [participants |-> <<calls[k].self, calls[k].other>>,
                     last_message |-> StartNotice(calls[k].self),
                     last_message_time |-> 0]
     IN IF ok /\ MayInsertChat(userProfile[calls[k].client], newChat)
        THEN /\ chats' = Append(chats, newChat)
             /\ DirectOpened(k, Len(chats) + 1)
        ELSE /\ DirectFailed(k)
             /\ UNCHANGED <<chats, selectedChat, windowVars, chanVars>>
  /\ UNCHANGED <<support_requests, messages, now, userProfile, utilVars, presVars, requests,
                 supportMessage, selectedHelper>>

\* ------------------------------------------------------------------ ChatWindow
\* the channel's .subscribe() is acknowledged by the realtime server
subscribed(c) ==
  /\ channel[c].st = "joining"
  /\ channel' = [channel EXCEPT ![c].st = "active"]
  /\ UNCHANGED <<chanVars, storeVars, userProfile, utilVars, presVars, dashVars, selectedChat, newMessage, lastSubmit,
                 chatMessages, fetches, mountedAt, calls, started, toast>>

\* the channel's callback: setMessages(prev => [...prev, payload.new])
onInsert(c) ==
  /\ channel[c].queue # << >>
  /\ chatMessages' = [chatMessages EXCEPT ![c] = Append(@, Head(channel[c].queue))]
  /\ channel' = [channel EXCEPT ![c].queue = Tail(@)]
  /\ UNCHANGED <<chanVars, storeVars, userProfile, utilVars, presVars, dashVars, selectedChat, newMessage, lastSubmit,
                 fetches, mountedAt, calls, started, toast>>

\* fetchMessages: the store runs the query, or the call fails: toast.error
fetchMessages_query(c, f, ok) ==
  /\ f \in fetches[c]
  /\ f.st = "pending"
  /\ IF ok
     THEN /\ \E data \in SortedReads(ChatLog(userProfile[c], f.chat)) :
               fetches' = [fetches EXCEPT ![c] =
                             (@ \ {f}) \cup {[f EXCEPT !.st = "read", !.data = data]}]
          /\ UNCHANGED toast
     ELSE /\ fetches' = [fetches EXCEPT ![c] = @ \ {f}]
          /\ toast' = [toast EXCEPT ![c] = "Failed to load messages"]
  /\ UNCHANGED <<chanVars, storeVars, userProfile, utilVars, presVars, dashVars, selectedChat, newMessage, lastSubmit,
                 chatMessages, channel, mountedAt, calls, started>>

\* fetchMessages: the response arrives, setMessages(data || [])
fetchMessages_response(c, f) ==
  /\ f \in fetches[c]
  /\ f.st = "read"
  /\ chatMessages' = [chatMessages EXCEPT ![c] = f.data]
  /\ fetches' = [fetches EXCEPT ![c] = @ \ {f}]
  /\ UNCHANGED <<chanVars, storeVars, userProfile, utilVars, presVars, dashVars, selectedChat, newMessage, lastSubmit,
                 channel, mountedAt, calls, started, toast>>

\* ChatWindow state `loading`: a sendMessage of this window is in flight
chatLoading(c) ==
  \E k \in CallIds : /\ calls[k].op = "send" /\ calls[k].client = c
                     /\ calls[k].mounted

\* onChange={(e) => setNewMessage(e.target.value)}; the input is disabled while loading
setNewMessage(c, t) ==
  /\ selectedChat[c] # NoChat
  /\ ~chatLoading(c)
  /\ newMessage[c] # t
  /\ newMessage' = [newMessage EXCEPT ![c] = t]
  /\ lastSubmit' = [lastSubmit EXCEPT ![c] = "none"]
  /\ UNCHANGED <<chanVars, storeVars, userProfile, utilVars, presVars, dashVars, selectedChat, chatMessages,
                 fetches, channel, mountedAt, calls, started, toast>>

\* sendMessage without `if (!newMessage.trim() || !userProfile) return`
sendMessage_unchecked(c) ==
  /\ selectedChat[c] # NoChat
  /\ ~chatLoading(c)
  /\ Begin([IdleCall EXCEPT !.op = "send", !.client = c,
                            !.self = userProfile[c],
                            !.chatId = selectedChat[c],
                            !.msg = Trim(newMessage[c]),
                            !.pc = "insert", !.mounted = TRUE])
  /\ newMessage' = [newMessage EXCEPT ![c] = Empty]
  /\ lastSubmit' = [lastSubmit EXCEPT ![c] = "sent"]
  /\ UNCHANGED <<chanVars, storeVars, userProfile, utilVars, presVars, dashVars, selectedChat, chatMessages,
                 fetches, channel, mountedAt, toast>>

\* the form's submit, up to the first await
sendMessage(c) ==
  /\ selectedChat[c] # NoChat
  /\ ~chatLoading(c)
  /\ IF Trim(newMessage[c]) = Empty \/ userProfile[c] = NoUser
     THEN /\ lastSubmit' = [lastSubmit EXCEPT ![c] = "ignored"]
          /\ UNCHANGED <<newMessage, calls, started>>
     ELSE /\ Begin([IdleCall EXCEPT !.op = "send", !.client = c,
                                    !.self = userProfile[c],
                                    !.chatId = selectedChat[c],
                                    !.msg = Trim(newMessage[c]),
                                    !.pc = "insert", !.mounted = TRUE])
          /\ newMessage' = [newMessage EXCEPT ![c] = Empty]
          /\ lastSubmit' = [lastSubmit EXCEPT ![c] = "sent"]
  /\ UNCHANGED <<chanVars, storeVars, userProfile, utilVars, presVars, dashVars, selectedChat, chatMessages,
                 fetches, channel, mountedAt, toast>>

\* the catch branch without setNewMessage(messageText)
SendFailed_consumed(k) ==
  /\ Finish(k, "Failed to send message. Please try again.")
  /\ UNCHANGED newMessage

\* catch: toast.error(...); setNewMessage(messageText); finally: setLoading(false)
SendFailed(k) ==
  /\ Finish(k, "Failed to send message. Please try again.")
  /\ newMessage' = IF calls[k].mounted
                   THEN [newMessage EXCEPT ![calls[k].client] = calls[k].msg]
                   ELSE newMessage

\* the insert without `if (messageError) throw messageError`
sendMessage_insert_unthrown(k, ok) ==
  /\ calls[k].op = "send" /\ calls[k].pc = "insert"
  /\ IF ok
     THEN \E t \in {now, now + 1} :
            LET row == [chat_id |-> calls[k].chatId, text |-> calls[k].msg,
                        sender_id |-> calls[k].self, created_at |-> t]
            IN /\ MayInsertMessage(userProfile[calls[k].client], row)
               /\ messages' = InsertMessage(row)
               /\ now' = t
               /\ channel' = Broadcast(Len(messages) + 1, row)
     ELSE UNCHANGED <<messages, now, channel>>
  /\ Goto(k, "update")
  /\ UNCHANGED <<chanVars, support_requests, chats, userProfile, utilVars, presVars, dashVars, selectedChat,
                 newMessage, lastSubmit, chatMessages, fetches, mountedAt>>

\* await supabase.from('messages').insert({chat_id, text, sender_id, sender_name})
sendMessage_insert(k, ok) ==
  /\ calls[k].op = "send" /\ calls[k].pc = "insert"
  /\ \/ /\ ok
        /\ \E t \in {now, now + 1} :
             LET row == [chat_id |-> calls[k].chatId, text |-> calls[k].msg,
                         sender_id |-> calls[k].self, created_at |-> t]
             IN /\ MayInsertMessage(userProfile[calls[k].client], row)
                /\ messages' = InsertMessage(row)
                /\ now' = t
                /\ channel' = Broadcast(Len(messages) + 1, row)
        /\ Goto(k, "update")
        /\ UNCHANGED newMessage
     \/ /\ \/ ~ok
           \/ ~MayInsertMessage(userProfile[calls[k].client],
                  [chat_id |-> calls[k].chatId, sender_id |-> calls[k].self])
        /\ SendFailed(k)
        /\ UNCHANGED <<messages, now, channel>>
  /\ UNCHANGED <<chanVars, support_requests, chats, userProfile, utilVars, presVars, dashVars, selectedChat,
                 lastSubmit, chatMessages, fetches, mountedAt>>

\* await supabase.from('chats').update({last_message, last_message_time}).eq('id', chatId)
sendMessage_update(k, ok) ==
  /\ calls[k].op = "send" /\ calls[k].pc = "update"
  /\ IF ok
     THEN /\ chats' = UpdateLastMessage(userProfile[calls[k].client],
                                        calls[k].chatId, calls[k].msg)
          /\ calls' = [calls EXCEPT ![k] = IdleCall]
          /\ UNCHANGED <<newMessage, started, toast>>
     ELSE /\ SendFailed(k)
          /\ UNCHANGED chats
  /\ UNCHANGED <<chanVars, support_requests, messages, now, userProfile, utilVars, presVars, dashVars,
                 selectedChat, lastSubmit, chatMessages, fetches, channel, mountedAt>>

\* ------------------------------------------------------------------ presence
\* an updateOnlineStatus that sends nothing
updateOnlineStatus_silent(c, op, isOnline) == UNCHANGED <<calls, started>>

\* updateOnlineStatus(isOnline) of the effect that ran for tracked[c], up to
\* its await: if (userProfile) the update is sent
updateOnlineStatus(c, op, isOnline) ==
  IF tracked[c] # NoUser
  THEN Begin([IdleCall EXCEPT !.op = op, !.client = c, !.self = tracked[c],
                              !.value = isOnline, !.pc = "update"])
  ELSE UNCHANGED <<calls, started>>

\* window 'online': handleOnline is registered while a profile is tracked
online(c) ==
  /\ IF tracked[c] # NoUser
     THEN updateOnlineStatus(c, "online", TRUE)
     ELSE UNCHANGED <<calls, started>>
  /\ lastTrigger' = [lastTrigger EXCEPT ![c] = "online"]
  /\ UNCHANGED <<storeVars, userProfile, utilVars, dashVars, selectedChat, windowVars, chanVars,
                 toast, profiles, tracked, isAvailable>>

\* window 'offline': handleOffline is registered while a profile is tracked
offline(c) ==
  /\ IF tracked[c] # NoUser
     THEN updateOnlineStatus(c, "offline", FALSE)
     ELSE UNCHANGED <<calls, started>>
  /\ lastTrigger' = [lastTrigger EXCEPT ![c] = "offline"]
  /\ UNCHANGED <<storeVars, userProfile, utilVars, dashVars, selectedChat, windowVars, chanVars,
                 toast, profiles, tracked, isAvailable>>

\* window 'beforeunload': handleBeforeUnload is registered while a profile is
\* tracked
beforeunload(c) ==
  /\ IF tracked[c] # NoUser
     THEN updateOnlineStatus(c, "beforeunload", FALSE)
     ELSE UNCHANGED <<calls, started>>
  /\ lastTrigger' = [lastTrigger EXCEPT ![c] = "beforeunload"]
  /\ UNCHANGED <<storeVars, userProfile, utilVars, dashVars, selectedChat, windowVars, chanVars,
                 toast, profiles, tracked, isAvailable>>

\* the effect on [userProfile]: the cleanup of the last run calls
\* updateOnlineStatus(false) with the profile of that run, then the body
\* registers the listeners and calls updateOnlineStatus(true)
onlineStatusEffect(c) ==
  /\ tracked[c] # userProfile[c]
  /\ LET cleanup == IF tracked[c] # NoUser
                    THEN <<[IdleCall EXCEPT !.op = "cleanup", !.client = c,
                                            !.self = tracked[c],
                                            !.value = FALSE, !.pc = "update"]>>
                    ELSE << >>
         body == IF userProfile[c] # NoUser
                 THEN <<[IdleCall EXCEPT !.op = "mount", !.client = c,
                                         !.self = userProfile[c],
                                         !.value = TRUE, !.pc = "update"]>>
                 ELSE << >>
         begun == cleanup \o body
     IN /\ started + Len(begun) <= MaxCalls
        /\ started' = started + Len(begun)
        /\ calls' = [k \in CallIds |->
                       IF k \in (started + 1)..(started + Len(begun))
                       THEN begun[k - started] ELSE calls[k]]
  /\ tracked' = [tracked EXCEPT ![c] = userProfile[c]]
  /\ UNCHANGED <<storeVars, userProfile, utilVars, dashVars, selectedChat, windowVars, chanVars,
                 toast, profiles, isAvailable, lastTrigger>>

\* the store runs the update of an updateOnlineStatus call, or the call fails;
\* the handler looks at neither
updateOnlineStatus_update(k, ok) ==
  /\ calls[k].op \in {"online", "offline", "beforeunload", "cleanup", "mount"}
  /\ calls[k].pc = "update"
  /\ profiles' = IF ok
                 THEN UpdateProfile(userProfile[calls[k].client], calls[k].self,
                        [profiles[calls[k].self] EXCEPT
                           !.is_online = calls[k].value,
                           !.last_seen = Date(k)])
                 ELSE profiles
  /\ profilesChannel' = IF ok
                        THEN NotifyProfile(userProfile[calls[k].client], calls[k].self,
                               [profiles[calls[k].self] EXCEPT
                                  !.is_online = calls[k].value,
                                  !.last_seen = Date(k)])
                        ELSE profilesChannel
  /\ helpersChannel' = IF ok
                       THEN NotifyHelpers(userProfile[calls[k].client], calls[k].self)
                       ELSE helpersChannel
  /\ calls' = [calls EXCEPT ![k] = IdleCall]
  /\ UNCHANGED <<storeVars, userProfile, utilVars, dashVars, selectedChat, windowVars, otherUserOnline, latest, windowChannels, dashboardChannels,
                 started, toast, tracked, isAvailable, lastTrigger>>

\* logout, up to its first await: if (userProfile) the profile is set offline
logout(c) ==
  /\ Begin([IdleCall EXCEPT !.op = "logout", !.client = c,
                            !.self = userProfile[c], !.value = FALSE,
                            !.pc = IF userProfile[c] # NoUser
                                   THEN "update" ELSE "signOut"])
  /\ lastTrigger' = [lastTrigger EXCEPT ![c] = "logout"]
  /\ UNCHANGED <<storeVars, userProfile, utilVars, dashVars, selectedChat, windowVars, chanVars,
                 toast, profiles, tracked, isAvailable>>

\* await supabase.from('profiles').update({is_online: false, last_seen}); the
\* result is not looked at
logout_update(k, ok) ==
  /\ calls[k].op = "logout" /\ calls[k].pc = "update"
  /\ profiles' = IF ok
                 THEN UpdateProfile(userProfile[calls[k].client], calls[k].self,
                        [profiles[calls[k].self] EXCEPT
                           !.is_online = FALSE, !.last_seen = Date(k)])
                 ELSE profiles
  /\ profilesChannel' = IF ok
                        THEN NotifyProfile(userProfile[calls[k].client], calls[k].self,
                               [profiles[calls[k].self] EXCEPT
                                  !.is_online = FALSE, !.last_seen = Date(k)])
                        ELSE profilesChannel
  /\ helpersChannel' = IF ok
                       THEN NotifyHelpers(userProfile[calls[k].client], calls[k].self)
                       ELSE helpersChannel
  /\ Goto(k, "signOut")
  /\ UNCHANGED <<storeVars, userProfile, utilVars, dashVars, selectedChat, windowVars, otherUserOnline, latest, windowChannels, dashboardChannels,
                 tracked, isAvailable, lastTrigger>>

\* await supabase.auth.signOut(); setUserProfile(null): the dashboard and its
\* ChatWindow unmount
logout_signOut(k) ==
  /\ calls[k].op = "logout" /\ calls[k].pc = "signOut"
  /\ selectedChat[calls[k].client] = NoChat
  /\ userProfile' = [userProfile EXCEPT ![calls[k].client] = NoUser]
  /\ dashboardChannels' = [dashboardChannels EXCEPT ![calls[k].client] =
                             Dashboard_effect(calls[k].client, NoUser)]
  /\ helpersChannel' = [helpersChannel EXCEPT ![calls[k].client] = HelpersChannel(NoUser)]
  /\ calls' = [calls EXCEPT ![k] = IdleCall]
  /\ UNCHANGED <<utilVars, storeVars, dashVars, selectedChat, windowVars, windowChan, started, toast,
                 profiles, tracked, isAvailable, lastTrigger>>

\* onAuthStateChange with a session while no profile is loaded:
\* setUserProfile(profile); Index renders the dashboard of the profile's role
\* and HelperDashboard starts with useState(userProfile?.is_available || false)
onSignedIn(c, u) ==
  /\ userProfile[c] = NoUser
  /\ userProfile' = [userProfile EXCEPT ![c] = u]
  /\ isAvailable' = [isAvailable EXCEPT ![c] = profiles[u].is_available]
  /\ dashboardChannels' = [dashboardChannels EXCEPT ![c] = Dashboard_effect(c, u)]
  /\ helpersChannel' = [helpersChannel EXCEPT ![c] = HelpersChannel(u)]
  /\ UNCHANGED <<utilVars, storeVars, dashVars, selectedChat, windowVars, windowChan, calls, started,
                 toast, profiles, tracked, lastTrigger>>

\* a page that renders HelperDashboard for every profile
HelperDashboard_any(c) == userProfile[c] # NoUser

\* Index renders <HelperDashboard/> unless userProfile.role is 'seeker'
HelperDashboard(c) ==
  userProfile[c] # NoUser /\ Role(userProfile[c]) # "seeker"

\* the availability switch of HelperDashboard, up to its await
toggleAvailability(c) ==
  /\ HelperDashboard(c)
  /\ Begin([IdleCall EXCEPT !.op = "available", !.client = c,
                            !.self = userProfile[c],
                            !.value = ~isAvailable[c], !.pc = "update"])
  /\ UNCHANGED <<storeVars, userProfile, utilVars, dashVars, selectedChat, windowVars, chanVars,
                 toast, presVars>>

\* await supabase.from('profiles').update({is_available: newStatus}); on an
\* error toast.error, else setIsAvailable(newStatus) and toast.success
toggleAvailability_update(k, ok) ==
  /\ calls[k].op = "available" /\ calls[k].pc = "update"
  /\ IF ok
     THEN /\ profiles' = UpdateProfile(userProfile[calls[k].client], calls[k].self,
                            [profiles[calls[k].self] EXCEPT
                               !.is_available = calls[k].value])
          /\ profilesChannel' =
               NotifyProfile(userProfile[calls[k].client], calls[k].self,
                             profiles[calls[k].self])
          /\ helpersChannel' =
               NotifyHelpers(userProfile[calls[k].client], calls[k].self)
          /\ isAvailable' = IF HelperDashboard(calls[k].client)
                            THEN [isAvailable EXCEPT ![calls[k].client] = calls[k].value]
                            ELSE isAvailable
          /\ Finish(k, IF calls[k].value THEN "You are now available to help"
                                         ELSE "You are now offline")
     ELSE /\ Finish(k, "Failed to update availability")
          /\ UNCHANGED <<profiles, isAvailable, profilesChannel, helpersChannel>>
  /\ UNCHANGED <<storeVars, userProfile, utilVars, dashVars, selectedChat, windowVars, otherUserOnline, latest, windowChannels, dashboardChannels,
                 tracked, lastTrigger>>

\* ------------------------------------------------------------------ presence events
\* the profile channel's .subscribe() is acknowledged by the realtime server
profileSubscribed(c) ==
  /\ profilesChannel[c].st = "joining"
  /\ profilesChannel' = [profilesChannel EXCEPT ![c].st = "active"]
  /\ UNCHANGED <<storeVars, userProfile, utilVars, presVars, dashVars, selectedChat,
                 windowVars, otherUserOnline, latest, windowChannels, dashChan,
                 calls, started, toast>>

\* the profile channel's callback: setOtherUserOnline(payload.new.is_online)
onProfileUpdate(c) ==
  /\ profilesChannel[c].queue # << >>
  /\ LET updatedProfile == Head(profilesChannel[c].queue)
     IN /\ otherUserOnline' = [otherUserOnline EXCEPT ![c] = updatedProfile.is_online]
        /\ latest' = [latest EXCEPT ![c] =
                        IF updatedProfile.last_seen >= @.last_seen
                        THEN updatedProfile ELSE @]
  /\ profilesChannel' = [profilesChannel EXCEPT ![c].queue = Tail(@)]
  /\ UNCHANGED <<storeVars, userProfile, utilVars, presVars, dashVars, selectedChat,
                 windowVars, windowChannels, dashChan, calls, started, toast>>

\* the helpers channel's .subscribe() is acknowledged by the realtime server
helpersSubscribed(c) ==
  /\ helpersChannel[c].st = "joining"
  /\ helpersChannel' = [helpersChannel EXCEPT ![c].st = "active"]
  /\ UNCHANGED <<storeVars, userProfile, utilVars, presVars, dashVars, selectedChat,
                 windowVars, windowChan, dashboardChannels, calls, started, toast>>

\* the helpers channel's callback: fetchHelpers()
onHelpersChange(c) ==
  /\ helpersChannel[c].queue # << >>
  /\ helpersChannel' = [helpersChannel EXCEPT ![c].queue = Tail(@)]
  /\ helpers' = [helpers EXCEPT !.status = "pending"]
  /\ UNCHANGED <<storeVars, userProfile, rankArgs, rankResult, distArgs, distResult,
                 listArgs, signupVars, presVars, dashVars, selectedChat, windowVars, windowChan,
                 dashboardChannels, calls, started, toast>>

\* ------------------------------------------------------------------ matching
\* requests, accept/decline and chat creation of one seeker and one helper
NextMatch ==
  \/ \E c \in Clients : fetchRequests(c)
  \/ \E c \in Clients : \E r \in requests[c] : handleAcceptRequest(c, r)
  \/ \E k \in CallIds, ok \in BOOLEAN : handleAcceptRequest_update(k, ok)
  \/ \E k \in CallIds, ok \in BOOLEAN : handleAcceptRequest_select(k, ok)
  \/ \E k \in CallIds, ok \in BOOLEAN : handleAcceptRequest_insert(k, ok)
  \/ \E c \in Clients : \E r \in requests[c] : handleDeclineRequest(c, r)
  \/ \E k \in CallIds, ok \in BOOLEAN : handleDeclineRequest_update(k, ok)
  \/ \E c \in Clients : onClose(c)
  \/ \E c \in Clients, t \in SupportTexts : setSupportMessage(c, t)
  \/ \E c \in Clients, h \in Helpers : setSelectedHelper(c, h)
  \/ \E c \in Clients : handleRequestSupport(c)
  \/ \E k \in CallIds, ok \in BOOLEAN : handleRequestSupport_insert(k, ok)
  \/ \E c \in Clients, h \in Helpers : handleDirectChat(c, h)
  \/ \E k \in CallIds, ok \in BOOLEAN : handleDirectChat_select(k, ok)
  \/ \E k \in CallIds, ok \in BOOLEAN : handleDirectChat_insert(k, ok)

SpecMatch == Init /\ [][NextMatch]_vars

\* ------------------------------------------------------------------ account switch
\* the helper's browser changes account while its dashboard stays mounted;
\* the store calls themselves succeed
NextAuth ==
  \/ \E c \in Clients, u \in Users : onAuthStateChange(c, u)
  \/ \E c \in Clients : fetchRequests(c)
  \/ \E c \in Clients : \E r \in requests[c] : handleAcceptRequest(c, r)
  \/ \E k \in CallIds : handleAcceptRequest_update(k, TRUE)
  \/ \E k \in CallIds : handleAcceptRequest_select(k, TRUE)
  \/ \E k \in CallIds : handleAcceptRequest_insert(k, TRUE)
  \/ \E c \in Clients : \E r \in requests[c] : handleDeclineRequest(c, r)
  \/ \E k \in CallIds : handleDeclineRequest_update(k, TRUE)
  \/ \E c \in Clients : onClose(c)
  \/ \E c \in Clients : setSupportMessage(c, <<"a", " ">>)
  \/ \E c \in Clients, h \in Helpers : setSelectedHelper(c, h)
  \/ \E c \in Clients : handleRequestSupport(c)
  \/ \E k \in CallIds : handleRequestSupport_insert(k, TRUE)

SpecAuth == Init /\ [][NextAuth]_vars

\* ------------------------------------------------------------------ sending
\* The handlers that write messages and chats.last_message.  The realtime
\* channel and fetchMessages write only chatMessages, fetches and channel,
\* which no handler below reads; they run in SpecChat.  The seeker opens the
\* window from a helper card, the helper from its list of chats.  The seeker
\* may close the window while a send is in flight.
NextSend ==
  \/ \E c \in Clients : handleDirectChat(c, "h1")
  \/ \E k \in CallIds : handleDirectChat_select(k, TRUE)
  \/ \E k \in CallIds : handleDirectChat_insert(k, TRUE)
  \/ \E id \in 1..Len(chats) : openExistingChat("ch", id)
  \/ onClose("cs")
  \/ \E c \in Clients : \E t \in ChatTexts(c) : setNewMessage(c, t)
  \/ \E c \in Clients : sendMessage(c)
  \/ \E k \in CallIds, ok \in BOOLEAN : sendMessage_insert(k, ok)
  \/ \E k \in CallIds, ok \in BOOLEAN : sendMessage_update(k, ok)

SpecSend == Init /\ [][NextSend]_vars

\* ------------------------------------------------------------------ delivery
\* mount, fetchMessages and the realtime channel of the helper's ChatWindow
\* while both participants send; the sends themselves succeed
\* the client whose ChatWindow is followed
Watcher == "ch"

NextChat ==
  \/ \E c \in Clients : handleDirectChat(c, "h1")
  \/ \E k \in CallIds : handleDirectChat_select(k, TRUE)
  \/ \E k \in CallIds : handleDirectChat_insert(k, TRUE)
  \/ \E c \in Clients, id \in 1..Len(chats) : openExistingChat(c, id)
  \/ subscribed(Watcher)
  \/ onInsert(Watcher)
  \/ \E ok \in BOOLEAN : \E f \in fetches[Watcher] : fetchMessages_query(Watcher, f, ok)
  \/ \E f \in fetches[Watcher] : fetchMessages_response(Watcher, f)
  \/ \E c \in Clients : \E t \in ChatTexts(c) : setNewMessage(c, t)
  \/ \E c \in Clients : sendMessage(c)
  \/ \E k \in CallIds : sendMessage_insert(k, TRUE)
  \/ \E k \in CallIds : sendMessage_update(k, TRUE)

SpecChat == Init /\ [][NextChat]_vars

\* ------------------------------------------------------------------ guest sender
\* the helper's browser changes account while its ChatWindow stays open, so a
\* user who is no participant of the chat types and sends; the store calls
\* themselves succeed
NextGuest ==
  \/ \E c \in Clients : handleDirectChat(c, "h1")
  \/ \E k \in CallIds : handleDirectChat_select(k, TRUE)
  \/ \E k \in CallIds : handleDirectChat_insert(k, TRUE)
  \/ \E c \in Clients, id \in 1..Len(chats) : openExistingChat(c, id)
  \/ \E u \in Users : onAuthStateChange("ch", u)
  \/ \E c \in Clients : \E t \in ChatTexts(c) : setNewMessage(c, t)
  \/ \E c \in Clients : sendMessage(c)
  \/ \E k \in CallIds : sendMessage_insert(k, TRUE)
  \/ \E k \in CallIds : sendMessage_update(k, TRUE)

SpecGuest == Init /\ [][NextGuest]_vars

\* ------------------------------------------------------------------ presence
\* sign-in, logout, account change and the window events of the helper's
\* browser, and the availability switch where a dashboard offers it
NextPresence ==
  \/ online("ch")
  \/ offline("ch")
  \/ beforeunload("ch")
  \/ onlineStatusEffect("ch")
  \/ \E k \in CallIds, ok \in BOOLEAN : updateOnlineStatus_update(k, ok)
  \/ logout("ch")
  \/ \E k \in CallIds, ok \in BOOLEAN : logout_update(k, ok)
  \/ \E k \in CallIds : logout_signOut(k)
  \/ \E u \in Helpers : onSignedIn("ch", u)
  \/ \E u \in Users : onAuthStateChange("ch", u)
  \/ \E c \in Clients : toggleAvailability(c)
  \/ \E k \in CallIds, ok \in BOOLEAN : toggleAvailability_update(k, ok)

SpecPresence == Init /\ [][NextPresence]_vars

\* ------------------------------------------------------------------ profile refetch
\* onAuthStateChange for the account that is already signed in (a refreshed
\* token, a repeated SIGNED_IN): the profile is selected again and
\* setUserProfile(profile) stores a new object for the same user, so the effect
\* on [userProfile] runs its cleanup, updateOnlineStatus(false), and then its
\* body, updateOnlineStatus(true); neither call is awaited
onAuthStateChange_refetch(c) ==
  /\ userProfile[c] # NoUser
  /\ tracked[c] = userProfile[c]
  /\ started + 2 <= MaxCalls
  /\ started' = started + 2
  /\ calls' = [k \in CallIds |->
                 IF k = started + 1
                 THEN [IdleCall EXCEPT !.op = "cleanup", !.client = c,
                                       !.self = tracked[c],
                                       !.value = FALSE, !.pc = "update"]
                 ELSE IF k = started + 2
                 THEN [IdleCall EXCEPT !.op = "mount", !.client = c,
                                       !.self = userProfile[c],
                                       !.value = TRUE, !.pc = "update"]
                 ELSE calls[k]]
  /\ UNCHANGED <<storeVars, userProfile, utilVars, dashVars, selectedChat, windowVars,
                 chanVars, toast, presVars>>

\* both users stay signed in with the network up, so no window event fires
\* and every presence write reaches the store; the seeker fills in the request
\* dialog and the helper uses the availability switch meanwhile
NextRefetch ==
  \/ \E c \in Clients : onAuthStateChange_refetch(c)
  \/ \E k \in CallIds : updateOnlineStatus_update(k, TRUE)
  \/ toggleAvailability("ch")
  \/ \E k \in CallIds : toggleAvailability_update(k, TRUE)
  \/ \E t \in SupportTexts : setSupportMessage("cs", t)
  \/ \E h \in Helpers : setSelectedHelper("cs", h)

SpecRefetch == Init /\ [][NextRefetch]_vars

\* ------------------------------------------------------------------ logout
\* the helper's profile has just been loaded by initializeAuth and the effect
\* on [userProfile] has not yet run for it; the stored row is still offline
InitLoaded ==
  /\ support_requests = << >>
  /\ chats = << >>
  /\ messages = << >>
  /\ now = 0
  /\ userProfile = [c \in Clients |-> IF c = "cs" THEN "s1" ELSE "h1"]
  /\ requests = [c \in Clients |-> {}]
  /\ selectedChat = [c \in Clients |-> NoChat]
  /\ loading = [c \in Clients |-> FALSE]
  /\ supportMessage = [c \in Clients |-> Empty]
  /\ selectedHelper = [c \in Clients |-> NoUser]
  /\ newMessage = [c \in Clients |-> Empty]
  /\ lastSubmit = [c \in Clients |-> "none"]
  /\ chatMessages = [c \in Clients |-> << >>]
  /\ fetches = [c \in Clients |-> {}]
  /\ channel = [c \in Clients |-> NoChannel]
  /\ mountedAt = [c \in Clients |-> 0]
  /\ calls = [k \in CallIds |-> IdleCall]
  /\ started = 0
  /\ toast = [c \in Clients |-> "none"]
  /\ profilesChannel = [c \in Clients |-> NoProfileChannel]
  /\ otherUserOnline = [c \in Clients |-> FALSE]
  /\ latest = [c \in Clients |-> NoEvent]
  /\ windowChannels = [c \in Clients |-> {}]
  /\ dashboardChannels =
       [c \in Clients |-> DashboardChannels(IF c = "cs" THEN "s1" ELSE "h1")]
  /\ helpersChannel = [c \in Clients |-> HelpersChannel(IF c = "cs" THEN "s1" ELSE "h1")]
  /\ tracked = [c \in Clients |-> IF c = "cs" THEN "s1" ELSE NoUser]
  /\ isAvailable = [c \in Clients |-> FALSE]
  /\ lastTrigger = [c \in Clients |-> "none"]
  /\ profiles = [u \in Users |-> [is_online |-> u = "s1", last_seen |-> 0,
                                  is_available |-> FALSE]]
  /\ NoUtil

\* the effect's online write at profile load, logout and the cleanup that
\* follows setUserProfile(null), with every write reaching the store; the
\* seeker fills in the request dialog meanwhile
NextLogout ==
  \/ \E c \in Clients : onlineStatusEffect(c)
  \/ \E k \in CallIds : updateOnlineStatus_update(k, TRUE)
  \/ \E c \in Clients : logout(c)
  \/ \E k \in CallIds : logout_update(k, TRUE)
  \/ \E k \in CallIds : logout_signOut(k)
  \/ \E t \in SupportTexts : setSupportMessage("cs", t)
  \/ \E h \in Helpers : setSelectedHelper("cs", h)

SpecLogout == InitLoaded /\ [][NextLogout]_vars

\* ------------------------------------------------------------------ ownership
\* every kind of write of the store by the seeker's browser and by the
\* helper's browser, which changes account while its dashboard, its request
\* cards and its ChatWindow stay as they are; the store runs every call
NextWrite ==
  \/ \E u \in Users : onAuthStateChange("ch", u)
  \/ offline("ch")
  \/ \E k \in CallIds : updateOnlineStatus_update(k, TRUE)
  \/ toggleAvailability("ch")
  \/ \E k \in CallIds : toggleAvailability_update(k, TRUE)
  \/ setSupportMessage("cs", <<"a", " ">>)
  \/ \E h \in Helpers : setSelectedHelper("cs", h)
  \/ handleRequestSupport("cs")
  \/ \E k \in CallIds : handleRequestSupport_insert(k, TRUE)
  \/ fetchRequests("ch")
  \/ \E r \in requests["ch"] : handleDeclineRequest("ch", r)
  \/ \E k \in CallIds : handleDeclineRequest_update(k, TRUE)
  \/ handleDirectChat("cs", "h1")
  \/ \E k \in CallIds : handleDirectChat_select(k, TRUE)
  \/ \E k \in CallIds : handleDirectChat_insert(k, TRUE)
  \/ \E id \in 1..Len(chats) : openExistingChat("ch", id)
  \/ setNewMessage("ch", <<"b">>)
  \/ sendMessage("ch")
  \/ \E k \in CallIds : sendMessage_insert(k, TRUE)
  \/ \E k \in CallIds : sendMessage_update(k, TRUE)

SpecWrite == Init /\ [][NextWrite]_vars

\* ------------------------------------------------------------------ geolocation
\* the locations a helper's record may carry, the seeker's location and the
\* points given to calculateDistance
HelperLocations ==
  {NoLocation, Undefined, Text, Point(0, 20), Point(20, 22), Point(24, 20)}

UserLocations == {NoLocation, Undefined, Point(20, 20), Point(2, 20)}

DistPoints == {Point(lat, lon) : lat \in {0 - 20, 0, 20, 60}, lon \in {0 - 40, 0, 20}}

HelperLists ==
  UNION {{[i \in 1..n |-> [id |-> i, location |-> locs[i]]] :
            locs \in [1..n -> HelperLocations]} : n \in 0..MaxHelpers}

\* one call of sortHelpersByDistance or of calculateDistance is about to run
InitRank ==
  /\ InitApp
  /\ NoSignup
  /\ \/ /\ rankArgs \in [helpers : HelperLists, userLocation : UserLocations]
        /\ rankResult = [status |-> "pending", value |-> << >>]
        /\ distArgs = [loc1 |-> NoLocation, loc2 |-> NoLocation]
        /\ distResult = [status |-> "none", value |-> 0]
        /\ listArgs = NoListArgs
        /\ helpers = [status |-> "none", value |-> << >>]
     \/ /\ rankArgs = [helpers |-> << >>, userLocation |-> NoLocation]
        /\ rankResult = [status |-> "none", value |-> << >>]
        /\ distArgs \in [loc1 : DistPoints, loc2 : DistPoints]
        /\ distResult = [status |-> "pending", value |-> 0]
        /\ listArgs = NoListArgs
        /\ helpers = [status |-> "none", value |-> << >>]

\* the call of sortHelpersByDistance(helpers, userLocation) runs
sortHelpersByDistance_call ==
  /\ rankResult.status = "pending"
  /\ rankResult' = sortHelpersByDistance(rankArgs.helpers, rankArgs.userLocation)
  /\ UNCHANGED <<storeVars, userProfile, dashVars, selectedChat, windowVars, chanVars,
                 calls, started, toast, presVars, rankArgs, distArgs, distResult,
                 listArgs, helpers, signupVars>>

\* the call of calculateDistance(loc1, loc2) runs
calculateDistance_call ==
  /\ distResult.status = "pending"
  /\ distResult' = [status |-> "returned",
                    value |-> calculateDistance(distArgs.loc1, distArgs.loc2)]
  /\ UNCHANGED <<storeVars, userProfile, dashVars, selectedChat, windowVars, chanVars,
                 calls, started, toast, presVars, rankArgs, rankResult, distArgs,
                 listArgs, helpers, signupVars>>

NextRank ==
  \/ sortHelpersByDistance_call
  \/ calculateDistance_call

SpecRank == InitRank /\ [][NextRank]_vars

\* ------------------------------------------------------------------ the helper list
\* profiles.location as updateUserLocation writes it: the text
\* `${latitude}, ${longitude}`
TextAt(lat, lon) == [kind |-> "string", latitude |-> lat, longitude |-> lon]

\* String.prototype.toLowerCase over the letters of the model
toLowerCase(t) ==
  [i \in 1..Len(t) |-> CASE t[i] = "A" -> "a"
                         [] t[i] = "B" -> "b"
                         [] t[i] = "N" -> "n"
                         [] OTHER -> t[i]]

\* String.prototype.includes
includes(t, part) ==
  \E i \in 0..(Len(t) - Len(part)) : SubSeq(t, i + 1, i + Len(part)) = part

\* helper.location?.toLowerCase().includes(term): undefined for a null
\* location; a location text made of digits, a comma and a blank holds no
\* letter, so it includes the empty term only
locationIncludes(location, term) ==
  /\ location.kind = "string"
  /\ term = Empty

\* .from('profiles').select('*'): the rows of the table
Table ==
  [u \in Users |-> [id |-> u, name |-> listArgs.columns[u].name, role |-> Role(u),
                    is_online |-> profiles[u].is_online,
                    is_available |-> profiles[u].is_available,
                    location |-> listArgs.columns[u].location,
                    languages |-> listArgs.columns[u].languages]]

\* ORDER BY is_online DESC, is_available DESC: the rank of a row, smaller first
OrderKey(row) ==
  (IF row.is_online THEN 0 ELSE 2) + (IF row.is_available THEN 0 ELSE 1)

\* the sequences that hold each element of a set once
Orderings(S) ==
  {q \in [1..Cardinality(S) -> S] : \A i, j \in 1..Cardinality(S) : i # j => q[i] # q[j]}

\* the answers the store can give to fetchHelpers' query: the rows with role
\* helper, ordered by the two keys; rows with equal keys come in any order
fetchHelpers_data(table) ==
  {[i \in 1..Len(q) |-> table[q[i]]] :
     q \in {o \in Orderings({u \in Users : table[u].role = "helper"}) :
              \A i, j \in 1..Len(o) :
                i < j => OrderKey(table[o[i]]) <= OrderKey(table[o[j]])}}

RECURSIVE SelectSeq2(_, _, _)
SelectSeq2(q, term, language) ==
  IF q = << >> THEN << >>
  ELSE LET helper == Head(q)
           matchesSearch ==
             \/ includes(toLowerCase(helper.name), toLowerCase(term))
             \/ locationIncludes(helper.location, toLowerCase(term))
           matchesLanguage == language = "" \/ language \in helper.languages
           rest == SelectSeq2(Tail(q), term, language)
       IN IF matchesSearch /\ matchesLanguage THEN <<helper>> \o rest ELSE rest

\* the list the dashboard renders
filteredHelpers == SelectSeq2(helpers.value, listArgs.searchTerm, listArgs.selectedLanguage)

\* the rows of the table in the order in which they were inserted
UserOrder == <<"s1", "h1", "h2">>

HelperNames == [h1 |-> <<"A", "n">>, h2 |-> <<"B", "a">>, s1 |-> <<"n", "a">>]
ListLocations == {NoLocation, TextAt(20, 22), TextAt(24, 20)}
CallerLocations == {NoLocation, TextAt(20, 20)}
Languages == {"English", "Tamil"}
SearchTerms == {Empty, <<"A", "N">>}

ProfileColumns ==
  {[u \in Users |->
      IF u \in Helpers
      THEN [name |-> HelperNames[u], location |-> loc[u], languages |-> {lang[u]}]
      ELSE [name |-> HelperNames[u], location |-> own, languages |-> {"English"}]] :
     loc \in [Helpers -> ListLocations], lang \in [Helpers -> Languages],
     own \in CallerLocations}

\* SeekerDashboard is about to call fetchHelpers
InitList ==
  /\ InitBrowsers
  /\ profiles \in {[u \in Users |->
                      IF u \in Helpers
                      THEN [is_online |-> on[u], last_seen |-> 0,
                            is_available |-> av[u]]
                      ELSE [is_online |-> TRUE, last_seen |-> 0,
                            is_available |-> FALSE]] :
                     on \in [Helpers -> BOOLEAN], av \in [Helpers -> BOOLEAN]}
  /\ rankArgs = [helpers |-> << >>, userLocation |-> NoLocation]
  /\ rankResult = [status |-> "none", value |-> << >>]
  /\ distArgs = [loc1 |-> NoLocation, loc2 |-> NoLocation]
  /\ distResult = [status |-> "none", value |-> 0]
  /\ listArgs \in [columns : ProfileColumns, searchTerm : SearchTerms,
                   selectedLanguage : {"", "English"}]
  /\ helpers = [status |-> "pending", value |-> << >>]
  /\ NoSignup

\* fetchHelpers runs: the query answers with rows, which setHelpers stores, or
\* with an error, which leaves the list as it was
fetchHelpers ==
  /\ helpers.status = "pending"
  /\ \/ /\ \E data \in fetchHelpers_data(Table) :
             helpers' = [status |-> "fetched", value |-> data]
        /\ UNCHANGED toast
     \/ /\ helpers' = [status |-> "failed", value |-> helpers.value]
        /\ toast' = [toast EXCEPT !["cs"] = "Failed to load helpers"]
  /\ UNCHANGED <<storeVars, userProfile, dashVars, selectedChat, windowVars, chanVars,
                 calls, started, presVars, rankArgs, rankResult,
                 distArgs, distResult, listArgs, signupVars>>

NextList == fetchHelpers

SpecList == InitList /\ [][NextList]_vars

\* ------------------------------------------------------------------ sign-up
FormNames == {Empty, <<" ">>, <<"a">>}
FormGenders == {"other", "prefer-not-to-say"}
FormRoles == {"seeker", "helper"}

\* the name input's onChange
setFormData_name(t) ==
  /\ formData' = [formData EXCEPT !.name = t]
  /\ formData' # formData
  /\ UNCHANGED <<storeVars, userProfile, dashVars, selectedChat, windowVars, chanVars,
                 calls, started, toast, presVars, rankArgs, rankResult, distArgs,
                 distResult, listArgs, helpers, newUser>>

\* the gender select's onChange
setFormData_gender(g) ==
  /\ formData' = [formData EXCEPT !.gender = g]
  /\ formData' # formData
  /\ UNCHANGED <<storeVars, userProfile, dashVars, selectedChat, windowVars, chanVars,
                 calls, started, toast, presVars, rankArgs, rankResult, distArgs,
                 distResult, listArgs, helpers, newUser>>

\* the two role buttons: setFormData({ ...formData, role }), which keeps the
\* isAvailable the form already holds
setFormData_role(r) ==
  /\ formData' = [formData EXCEPT !.role = r]
  /\ formData' # formData
  /\ UNCHANGED <<storeVars, userProfile, dashVars, selectedChat, windowVars, chanVars,
                 calls, started, toast, presVars, rankArgs, rankResult, distArgs,
                 distResult, listArgs, helpers, newUser>>

\* the availability checkbox, which is rendered only while formData.role is
\* 'helper'
setFormData_isAvailable(b) ==
  /\ formData.role = "helper"
  /\ formData' = [formData EXCEPT !.isAvailable = b]
  /\ formData' # formData
  /\ UNCHANGED <<storeVars, userProfile, dashVars, selectedChat, windowVars, chanVars,
                 calls, started, toast, presVars, rankArgs, rankResult, distArgs,
                 distResult, listArgs, helpers, newUser>>

\* handleSubmit in sign-up mode, up to its await: a blank name is refused with
\* a toast, else signup() is called with the profile data of the form; the
\* submit button is disabled while isLoading
handleSubmit ==
  /\ ~newUser.isLoading
  /\ IF Trim(formData.name) = Empty
     THEN newUser' = [newUser EXCEPT !.toast = "Please enter your name"]
     ELSE newUser' = [newUser EXCEPT
                        !.status = "pending", !.isLoading = TRUE,
                        !.raw_user_meta_data =
                          [name |-> formData.name, gender |-> formData.gender,
                           role |-> formData.role,
                           is_available |-> formData.isAvailable],
                        !.profile = << >>]
  /\ UNCHANGED <<storeVars, userProfile, dashVars, selectedChat, windowVars, chanVars,
                 calls, started, toast, presVars, rankArgs, rankResult, distArgs,
                 distResult, listArgs, helpers, formData>>

\* new.raw_user_meta_data->>key: the value under the key, NULL (no value) when
\* the object has no such key
JsonText(meta, key) == IF key \in DOMAIN meta THEN {meta[key]} ELSE {}

COALESCE(v, d) == IF v = {} THEN d ELSE CHOOSE x \in v : TRUE

\* the columns' CHECK constraints of public.profiles
profiles_check(row) ==
  /\ row.gender \in {"male", "female", "other"}
  /\ row.role \in {"seeker", "helper"}

\* a trigger that reads the key the form sends
handle_new_user_sent_key(new) ==
  [name |-> COALESCE(JsonText(new.raw_user_meta_data, "name"),
                     COALESCE(JsonText(new.raw_user_meta_data, "full_name"),
                              <<"U", "s", "e", "r">>)),
   gender |-> COALESCE(JsonText(new.raw_user_meta_data, "gender"), "other"),
   role |-> COALESCE(JsonText(new.raw_user_meta_data, "role"), "seeker"),
   is_available |-> COALESCE(JsonText(new.raw_user_meta_data, "is_available"), FALSE)]

\* the row that the trigger function inserts into public.profiles for a new
\* auth.users row; it reads the availability under the key 'isAvailable'
handle_new_user(new) ==
  [name |-> COALESCE(JsonText(new.raw_user_meta_data, "name"),
                     COALESCE(JsonText(new.raw_user_meta_data, "full_name"),
                              <<"U", "s", "e", "r">>)),
   gender |-> COALESCE(JsonText(new.raw_user_meta_data, "gender"), "other"),
   role |-> COALESCE(JsonText(new.raw_user_meta_data, "role"), "seeker"),
   is_available |-> COALESCE(JsonText(new.raw_user_meta_data, "isAvailable"), FALSE)]

\* await supabase.auth.signUp({ options: { data: profileData } }): the insert
\* into auth.users fires on_auth_user_created, and fails as a whole when the
\* trigger's insert violates a constraint; handleSubmit then shows a toast and
\* its finally block clears isLoading
signup_signUp(ok) ==
  /\ newUser.status = "pending"
  /\ IF ok /\ profiles_check(handle_new_user(newUser))
     THEN newUser' = [newUser EXCEPT
                        !.status = "created", !.isLoading = FALSE,
                        !.profile = handle_new_user(newUser),
                        !.toast = "Account created! Please check your email to verify your account."]
     ELSE newUser' = [newUser EXCEPT
                        !.status = "failed", !.isLoading = FALSE,
                        !.toast = "An error occurred"]
  /\ UNCHANGED <<storeVars, userProfile, dashVars, selectedChat, windowVars, chanVars,
                 calls, started, toast, presVars, rankArgs, rankResult, distArgs,
                 distResult, listArgs, helpers, formData>>

NextSignup ==
  \/ \E t \in FormNames : setFormData_name(t)
  \/ \E g \in FormGenders : setFormData_gender(g)
  \/ \E r \in FormRoles : setFormData_role(r)
  \/ \E b \in BOOLEAN : setFormData_isAvailable(b)
  \/ handleSubmit
  \/ \E ok \in BOOLEAN : signup_signUp(ok)
  \/ \E c \in Clients : toggleAvailability(c)
  \/ \E k \in CallIds, ok \in BOOLEAN : toggleAvailability_update(k, ok)

SpecSignup == Init /\ [][NextSignup]_vars

\* ------------------------------------------------------------------ presence events
\* the seeker opens and closes a chat with h1 while h1's browser goes offline
\* and h1 switches availability; the realtime client hands every event it
\* has received to the channel's callback
NextNotify ==
  \/ handleDirectChat("cs", "h1")
  \/ \E k \in CallIds : handleDirectChat_select(k, TRUE)
  \/ \E k \in CallIds : handleDirectChat_insert(k, TRUE)
  \/ onClose("cs")
  \/ profileSubscribed("cs")
  \/ onProfileUpdate("cs")
  \/ helpersSubscribed("cs")
  \/ onHelpersChange("cs")
  \/ fetchHelpers
  \/ offline("ch")
  \/ \E k \in CallIds, ok \in BOOLEAN : updateOnlineStatus_update(k, ok)
  \/ toggleAvailability("ch")
  \/ \E k \in CallIds : toggleAvailability_update(k, TRUE)

SpecNotify ==
  /\ Init
  /\ [][NextNotify]_vars
  /\ WF_vars(onProfileUpdate("cs"))
  /\ WF_vars(onHelpersChange("cs"))

\* the same, and h1's browser goes online as well as offline
NextEvents ==
  \/ NextNotify
  \/ online("ch")

SpecEvents == Init /\ [][NextEvents]_vars

\* ------------------------------------------------------------------ subscriptions
\* the seeker starts, closes and reopens chats; the helper's browser logs
\* out, signs in again and changes account
NextSub ==
  \/ \E h \in Helpers : handleDirectChat("cs", h)
  \/ \E k \in CallIds : handleDirectChat_select(k, TRUE)
  \/ \E k \in CallIds : handleDirectChat_insert(k, TRUE)
  \/ \E id \in 1..Len(chats) : openExistingChat("cs", id)
  \/ onClose("cs")
  \/ logout("ch")
  \/ \E k \in CallIds : logout_update(k, TRUE)
  \/ \E k \in CallIds : logout_signOut(k)
  \/ \E u \in Helpers : onSignedIn("ch", u)
  \/ \E u \in Users : onAuthStateChange("ch", u)

SpecSub == Init /\ [][NextSub]_vars

\* ------------------------------------------------------------------ properties
\* C1: for every unordered pair of users there is at most one chat whose
\* participants are that pair, also when handleAcceptRequest and
\* handleDirectChat run concurrently for the pair
AtMostOneChatPerPair ==
  \A i, j \in 1..Len(chats) :
    Participants(chats[i]) = Participants(chats[j]) => i = j

\* C2: the status of a support request changes only along pending->accepted,
\* pending->declined or accepted->completed, whatever view the caller acts on
StatusFollowsTransitions ==
  [][\A i \in 1..Len(support_requests) :
       support_requests'[i].status # support_requests[i].status =>
         <<support_requests[i].status, support_requests'[i].status>>
           \in {<<"pending", "accepted">>, <<"pending", "declined">>,
                <<"accepted", "completed">>}]_vars

\* C3: when a request is the only one of its seeker and helper, accepting it,
\* even twice concurrently, creates exactly one chat (the chats an accept
\* creates are those whose first participant is the helper)
DoubleAcceptOneSession ==
  \A h \in Helpers, s \in Seekers :
    Cardinality({i \in 1..Len(support_requests) :
                   /\ support_requests[i].seeker_id = s
                   /\ support_requests[i].helper_id = h}) = 1
      => Cardinality({j \in 1..Len(chats) : chats[j].participants = <<h, s>>}) <= 1

\* C6: an accept whose request is no longer pending when its update reaches the
\* store fails: the status is left as it is, the handler ends in its catch
\* branch, and the call neither creates nor opens a chat
AcceptNonPendingFails ==
  [][\A k \in CallIds :
       ( /\ calls[k].op = "accept" /\ calls[k].pc = "update"
         /\ calls'[k] # calls[k]
         /\ support_requests[calls[k].req].status # "pending" )
       => /\ support_requests' = support_requests
          /\ calls'[k] = IdleCall
          /\ toast'[calls[k].client] = "Failed to accept request"
          /\ UNCHANGED <<chats, selectedChat>>]_vars

\* C7: an accept or decline called by a user who is not the request's
\* helper_id fails when its update reaches the store: the status is unchanged, the handler
\* ends in its catch branch, and no chat is created or opened
OnlyNamedHelperResolves ==
  [][\A k \in CallIds :
       ( /\ calls[k].op \in {"accept", "decline"} /\ calls[k].pc = "update"
         /\ calls'[k] # calls[k]
         /\ userProfile[calls[k].client] = calls[k].self
         /\ calls[k].self # support_requests[calls[k].req].helper_id )
       => /\ support_requests' = support_requests
          /\ calls'[k] = IdleCall
          /\ toast'[calls[k].client] =
               (IF calls[k].op = "accept" THEN "Failed to accept request"
                                          ELSE "Failed to decline request")
          /\ UNCHANGED <<chats, selectedChat>>]_vars

\* C10: handleRequestSupport with a message that is empty after trim is
\* rejected with the toast 'Please enter a message' and writes nothing: a
\* request call starts only with a non-empty message, a rejected call leaves
\* the store, the calls and the dialog as they are, and every row added to
\* support_requests carries the non-empty message of the call that added it
EmptyRequestRejected ==
  [][/\ \A k \in CallIds :
          (calls[k].op # "request" /\ calls'[k].op = "request")
          => /\ Trim(supportMessage[calls'[k].client]) # Empty
             /\ calls'[k].msg = Trim(supportMessage[calls'[k].client])
     /\ \A c \in Clients :
          ( /\ Trim(supportMessage[c]) = Empty
            /\ toast'[c] = "Please enter a message" /\ toast'[c] # toast[c] )
          => UNCHANGED <<storeVars, dashVars, calls, started>>
     /\ Len(support_requests') # Len(support_requests)
          => \E k \in CallIds :
               /\ calls[k].op = "request" /\ calls[k].msg # Empty
               /\ support_requests' =
                    Append(support_requests,
                           [seeker_id |-> calls[k].self, helper_id |-> calls[k].other,
                            message |-> calls[k].msg, status |-> "pending"])]_vars

\* C10 witness: the dialog is open with a whitespace-only message, the handler
\* has rejected it, and no request has been stored
EmptyRequestRejected_witness ==
  /\ toast["cs"] = "Please enter a message"
  /\ selectedHelper["cs"] # NoUser
  /\ supportMessage["cs"] = <<" ">>
  /\ support_requests = << >>
  /\ started = 0

\* C4 as stated: the snapshot of every chat is the text of a message in that
\* chat's log, from the creation of the chat onward
SnapshotIsLoggedText ==
  \A i \in 1..Len(chats) :
    \E m \in 1..Len(messages) :
      messages[m].chat_id = i /\ messages[m].text = chats[i].last_message

\* C4 amended: the snapshot of every chat is the notice its creator wrote with
\* the chat, or the text of a message in that chat's log
SnapshotIsNoticeOrLoggedText ==
  \A i \in 1..Len(chats) :
    \/ /\ chats[i].last_message_time = 0
       /\ chats[i].last_message \in {AcceptNotice(chats[i].participants[1]),
                                     StartNotice(chats[i].participants[1])}
    \/ \E m \in 1..Len(messages) :
         messages[m].chat_id = i /\ messages[m].text = chats[i].last_message

\* C4 witness: both participants have sent into one chat and the snapshot is
\* the text of the earlier of the two messages
SnapshotIsNoticeOrLoggedText_witness ==
  \E i \in 1..Len(chats) : \E m1, m2 \in 1..Len(messages) :
    /\ m1 < m2
    /\ messages[m1].chat_id = i /\ messages[m2].chat_id = i
    /\ messages[m1].sender_id # messages[m2].sender_id
    /\ chats[i].last_message = messages[m1].text
    /\ chats[i].last_message # messages[m2].text

\* C8: a sendMessage that ends without having written the snapshot (its insert
\* or its update returned an error) shows the error toast, puts the submitted
\* text (messageText) back into the input field of its window, and neither
\* inserts again nor starts another call
FailedSendKeepsInput ==
  [][\A k \in CallIds :
       ( /\ calls[k].op = "send"
         /\ calls'[k] = IdleCall
         /\ chats' = chats )
       => /\ toast'[calls[k].client] = "Failed to send message. Please try again."
          /\ calls[k].mounted => newMessage'[calls[k].client] = calls[k].msg
          /\ messages' = messages
          /\ started' = started
          /\ \A j \in CallIds \ {k} : calls'[j] = calls[j]]_vars

\* C8 witness: the seeker's send of " a" has failed and the field of the open
\* window holds the submitted text "a" again
FailedSendKeepsInput_witness ==
  /\ toast["cs"] = "Failed to send message. Please try again."
  /\ selectedChat["cs"] # NoChat
  /\ newMessage["cs"] = <<"a">>
  /\ \A k \in CallIds : calls[k].op # "send"

\* C9: right after a sendMessage has inserted its message, every read of the
\* chat's history ends with that message: its text and sender are those of the
\* call and no message of the chat has a later created_at
SendThenHistory ==
  [][\A k \in CallIds :
       ( /\ calls[k].op = "send" /\ calls[k].pc = "insert"
         /\ calls'[k].pc = "update" )
       => \A p \in SortedReads(ChatLog(calls[k].self, calls[k].chatId))' :
            /\ p # << >>
            /\ messages'[p[Len(p)]].text = calls[k].msg
            /\ messages'[p[Len(p)]].sender_id = calls[k].self
            /\ \A i \in 1..Len(p) :
                 messages'[p[i]].created_at <= messages'[p[Len(p)]].created_at]_vars

\* C5: once the window's fetches have returned and its channel is subscribed
\* with nothing queued, the list holds every message added to the chat since
\* the mount and is in creation order
MountedListComplete ==
  \A c \in Clients :
    ( /\ selectedChat[c] # NoChat
      /\ fetches[c] = {}
      /\ toast[c] # "Failed to load messages"
      /\ channel[c].st = "active" /\ channel[c].queue = << >> )
    => /\ \A m \in (mountedAt[c] + 1)..Len(messages) :
            messages[m].chat_id = selectedChat[c]
            => \E i \in 1..Len(chatMessages[c]) : chatMessages[c][i] = m
       /\ \A i, j \in 1..Len(chatMessages[c]) :
            i < j => messages[chatMessages[c][i]].created_at
                       <= messages[chatMessages[c][j]].created_at

\* C11: a decline by the request's named helper that returns without error
\* leaves the request declined and every other request as it was; a decline
\* that fails leaves the requests as they were; no step of a decline creates,
\* changes or opens a chat
DeclineSetsDeclinedOnly ==
  [][\A k \in CallIds :
       ( /\ calls[k].op = "decline" /\ calls'[k] # calls[k]
         /\ userProfile[calls[k].client] = calls[k].self
         /\ calls[k].self = support_requests[calls[k].req].helper_id )
       => /\ UNCHANGED <<chats, selectedChat, messages>>
          /\ calls'[k] = IdleCall
          /\ \/ /\ toast'[calls[k].client] = "Request declined"
                /\ support_requests' =
                     [support_requests EXCEPT ![calls[k].req].status = "declined"]
             \/ /\ toast'[calls[k].client] = "Failed to decline request"
                /\ support_requests' = support_requests]_vars

\* C11 witness: the helper has declined the only request and no chat exists
DeclineSetsDeclinedOnly_witness ==
  /\ Len(support_requests) = 1
  /\ support_requests[1].status = "declined"
  /\ toast["ch"] = "Request declined"
  /\ chats = << >>

\* C12: a sendMessage whose sender is not one of the chat's two participants
\* fails at its insert: the handler ends in its catch branch, no message is
\* added to any log and no chat's snapshot changes
GuestSendFails ==
  [][\A k \in CallIds :
       ( /\ calls[k].op = "send" /\ calls'[k] # calls[k]
         /\ calls[k].self \notin Participants(chats[calls[k].chatId]) )
       => /\ calls[k].pc = "insert"
          /\ calls'[k] = IdleCall
          /\ toast'[calls[k].client] = "Failed to send message. Please try again."
          /\ messages' = messages
          /\ chats' = chats]_vars

\* C12 witness: h2, who took over the helper's open window of the chat of s1
\* and h1, has sent "b"; the send failed and the log is empty
GuestSendFails_witness ==
  /\ userProfile["ch"] = "h2"
  /\ selectedChat["ch"] # NoChat
  /\ "h2" \notin Participants(chats[selectedChat["ch"]])
  /\ toast["ch"] = "Failed to send message. Please try again."
  /\ newMessage["ch"] = <<"b">>
  /\ started = 2
  /\ messages = << >>

HistoryInCreationOrder ==
  [][\A c \in Clients : \A f \in fetches'[c] \ fetches[c] :
       (f.st = "read" /\ userProfile[c] \in Participants(chats[f.chat]))
       => /\ {f.data[i] : i \in 1..Len(f.data)}
               = {m \in 1..Len(messages) : messages[m].chat_id = f.chat}
          /\ \A i, j \in 1..Len(f.data) :
               i < j => \/ messages[f.data[i]].created_at
                             < messages[f.data[j]].created_at
                        \/ /\ messages[f.data[i]].created_at
                                = messages[f.data[j]].created_at
                           /\ f.data[i] < f.data[j]]_vars

\* C15: whatever step is taken, every message of the log stays in it with the
\* same id, chat, sender, text and created_at: the log only grows at its end
MessagesAppendOnly ==
  [][/\ Len(messages') >= Len(messages)
     /\ \A m \in 1..Len(messages) : messages'[m] = messages[m]]_vars

\* C15 witness: two messages are in the log, the first written before the
\* second, and a step of a send that failed later has touched neither
MessagesAppendOnly_witness ==
  /\ Len(messages) = 2
  /\ messages[1].text = <<"a">>
  /\ started = MaxCalls
  /\ toast["cs"] = "Failed to send message. Please try again."

\* C17: a chat is created with two different user ids, the caller of the
\* handler that creates it and the user it names, and no later step, a write
\* of the chat's snapshot included, changes its participants
TwoParticipants ==
  [][\A i \in 1..Len(chats') :
       /\ Len(chats'[i].participants) = 2
       /\ Cardinality(Participants(chats'[i])) = 2
       /\ Participants(chats'[i]) \subseteq Users
       /\ IF i <= Len(chats)
          THEN chats'[i].participants = chats[i].participants
          ELSE \E k \in CallIds :
                 /\ calls[k].pc = "insert"
                 /\ calls[k].op \in {"accept", "direct"}
                 /\ Participants(chats'[i]) = {calls[k].self, calls[k].other}]_vars

\* C17 witness: the chat of s1 and h1 has had its snapshot written twice
TwoParticipants_witness ==
  /\ Len(chats) = 1
  /\ chats[1].last_message_time = 2
  /\ Participants(chats[1]) = {"s1", "h1"}

PresenceRefreshesLastSeen ==
  [][\A k \in CallIds :
       ( /\ calls[k].op \in {"online", "offline", "beforeunload", "cleanup",
                             "mount", "logout"}
         /\ calls[k].pc = "update" /\ calls'[k].pc # "update"
         /\ profiles' # profiles )
       => /\ profiles'[calls[k].self].is_online = calls[k].value
          /\ profiles'[calls[k].self].last_seen
               >= profiles[calls[k].self].last_seen]_vars

NoCrossUserWrite ==
  [][/\ <<profiles, messages, support_requests>>'
          # <<profiles, messages, support_requests>>
          => \E k \in CallIds : calls[k].op # "none" /\ calls'[k] # calls[k]
     /\ \A k \in CallIds :
       (calls[k].op # "none" /\ calls'[k] # calls[k])
       => LET uid == userProfile[calls[k].client]
          IN /\ \A u \in Users : profiles'[u] # profiles[u] => u = uid
             /\ Len(messages') > Len(messages)
                  => /\ messages'[Len(messages')].sender_id = uid
                     /\ uid \in Participants(chats[messages'[Len(messages')].chat_id])
             /\ Len(support_requests') > Len(support_requests)
                  => support_requests'[Len(support_requests')].seeker_id = uid
             /\ \A i \in 1..Len(support_requests) :
                  support_requests'[i] # support_requests[i]
                  => /\ support_requests[i].helper_id = uid
                     /\ support_requests'[i]
                          = [support_requests[i] EXCEPT
                               !.status = support_requests'[i].status]]_vars

\* C16 witness: h2 has taken over the browser of h1 while an update of h1's
\* presence was in flight and has clicked Decline on h1's request card; the
\* store has run both calls, h1's profile is as it was and the request is
\* still pending
NoCrossUserWrite_witness ==
  /\ userProfile["ch"] = "h2"
  /\ lastTrigger["ch"] = "offline"
  /\ profiles["h1"].is_online /\ profiles["h1"].last_seen = 0
  /\ toast["ch"] = "Request declined"
  /\ Len(support_requests) = 1
  /\ support_requests[1].helper_id = "h1"
  /\ support_requests[1].status = "pending"
  /\ \A k \in CallIds : calls[k].op = "none"

\* C29: calculateDistance gives the same result for (a, b) as for (b, a), and
\* 0 for (a, a)
DistanceSymmetric ==
  distResult.status = "returned"
  => /\ distResult.value = calculateDistance(distArgs.loc2, distArgs.loc1)
     /\ distArgs.loc1 = distArgs.loc2 => distResult.value = 0
     /\ distResult.value >= 0

\* C29 witness: the distance of two different points, a quarter of the
\* equator apart or less, has been computed and is not 0
DistanceSymmetric_witness ==
  /\ distResult.status = "returned"
  /\ distArgs.loc1 = Point(0, 0 - 40) /\ distArgs.loc2 = Point(0, 20)
  /\ distResult.value > 600000 /\ distResult.value < 700000

\* C28: without a user location sortHelpersByDistance returns the list it was
\* given, element for element
AbsentLocationKeepsOrder ==
  ( /\ rankResult.status \notin {"none", "pending"}
    /\ rankArgs.userLocation.kind # "object" )
  => /\ rankResult.status = "returned"
     /\ rankResult.value = rankArgs.helpers

\* C28 witness: a list whose first helper is far, whose second has a null
\* location and whose third is near has come back as it was
AbsentLocationKeepsOrder_witness ==
  /\ rankResult.status = "returned"
  /\ rankArgs.userLocation = NoLocation
  /\ Len(rankArgs.helpers) = 3
  /\ rankArgs.helpers[1].location = Point(24, 20)
  /\ rankArgs.helpers[2].location = NoLocation
  /\ rankArgs.helpers[3].location = Point(20, 22)
  /\ rankResult.value = rankArgs.helpers

\* C27: with a user location, sortHelpersByDistance returns for every list,
\* also one with a null, undefined or textual location; a helper whose
\* location is a point, latitude 0 included, gets the distance of that point
\* and every other helper gets none and comes behind all helpers with a point
AbsentLocationIsNotZero ==
  ( /\ rankResult.status \notin {"none", "pending"}
    /\ rankArgs.userLocation.kind = "object" )
  => /\ rankResult.status = "returned"
     /\ Len(rankResult.value) = Len(rankArgs.helpers)
     /\ \A i \in 1..Len(rankResult.value) :
          LET h == rankResult.value[i]
          IN IF h.location.kind = "object"
             THEN h.distance
                    = Round1(calculateDistance(rankArgs.userLocation, h.location))
             ELSE /\ h.distance = NullDistance
                  /\ \A j \in 1..Len(rankResult.value) :
                       rankResult.value[j].location.kind = "object" => j < i

\* C25: with a user location, whatever the order of the list given, the list
\* sortHelpersByDistance returns has every helper whose location is a point
\* before every helper without one
LocatedBeforeUnlocated ==
  ( /\ rankResult.status \notin {"none", "pending"}
    /\ rankArgs.userLocation.kind = "object" )
  => /\ rankResult.status = "returned"
     /\ \A i, j \in 1..Len(rankResult.value) :
          ( /\ rankResult.value[i].location.kind = "object"
            /\ rankResult.value[j].location.kind # "object" )
          => i < j

\* C26: the list sortHelpersByDistance returns for a user location holds the
\* helpers it was given; of two helpers whose locations are points the one
\* that comes first is not farther from the user than the other, and the
\* helpers without a point are in the order in which they were given
AscendingByDistance ==
  ( /\ rankResult.status = "returned"
    /\ rankArgs.userLocation.kind = "object" )
  => /\ {rankResult.value[i].id : i \in 1..Len(rankResult.value)}
          = 1..Len(rankArgs.helpers)
     /\ Len(rankResult.value) = Len(rankArgs.helpers)
     /\ \A i, j \in 1..Len(rankResult.value) :
          i < j
          => LET x == rankResult.value[i]
                 y == rankResult.value[j]
             IN /\ (x.location.kind = "object" /\ y.location.kind = "object")
                   => calculateDistance(rankArgs.userLocation, x.location)
                        <= calculateDistance(rankArgs.userLocation, y.location)
                /\ (x.location.kind # "object" /\ y.location.kind # "object")
                   => x.id < y.id

\* C24: the list the seeker's dashboard shows after fetchHelpers holds exactly
\* the profiles with role helper that pass the filter, each once; when the
\* seeker has a location the helpers are in ascending distance from it with
\* the helpers without a location last, and when the seeker has none they are
\* in the order of the table
ListedByProximity ==
  helpers.status = "fetched"
  => LET shown == filteredHelpers
         own == Table["s1"].location
         Dist(row) == calculateDistance(Point(own.latitude, own.longitude),
                                        Point(row.location.latitude,
                                              row.location.longitude))
     IN /\ Len(shown) = Cardinality({shown[i].id : i \in 1..Len(shown)})
        /\ {shown[i].id : i \in 1..Len(shown)}
             = {u \in Users :
                  /\ Table[u].role = "helper"
                  /\ \/ listArgs.selectedLanguage = ""
                     \/ listArgs.selectedLanguage \in Table[u].languages
                  /\ \/ includes(toLowerCase(Table[u].name),
                                  toLowerCase(listArgs.searchTerm))
                     \/ locationIncludes(Table[u].location,
                                         toLowerCase(listArgs.searchTerm))}
        /\ \A i, j \in 1..Len(shown) :
             i < j
             => IF own.kind = "string"
                THEN /\ shown[i].location.kind = "string"
                        \/ shown[j].location.kind # "string"
                     /\ ( /\ shown[i].location.kind = "string"
                          /\ shown[j].location.kind = "string" )
                        => Dist(shown[i]) <= Dist(shown[j])
                ELSE \E a, b \in 1..Len(UserOrder) :
                       a < b /\ UserOrder[a] = shown[i].id /\ UserOrder[b] = shown[j].id

\* C23: a user's is_online goes from true to false only in a step in which the
\* store runs a call of a browser on which that user is signed in; while the
\* user is signed in on no browser, is_online stays true whatever else happens
OnlineUntilOwnWrite ==
  [][\A u \in Users :
       /\ (profiles[u].is_online /\ ~profiles'[u].is_online)
          => \E k \in CallIds :
               /\ calls[k].op # "none"
               /\ calls'[k] # calls[k]
               /\ userProfile[calls[k].client] = u
       /\ (profiles[u].is_online /\ \A c \in Clients : userProfile[c] # u)
          => profiles'[u].is_online]_vars

\* C23 witness: h2 has signed in on the browser of h1 and no write has set
\* h1's is_online to false; since then h2's presence has been written, last
\* as offline, no call is in flight, and h1 is still shown online
OnlineUntilOwnWrite_witness ==
  /\ \A c \in Clients : userProfile[c] # "h1"
  /\ profiles["h1"].is_online
  /\ profiles["h2"].last_seen >= 2
  /\ ~profiles["h2"].is_online
  /\ \A k \in CallIds : calls[k].op = "none"

\* C22: once a ChatWindow has received profile events of the other user, the
\* online status it shows is the is_online of the received event with the
\* greatest last_seen, in whatever order the events came
ShowsLatestLastSeen ==
  \A c \in Clients :
    latest[c] # NoEvent => otherUserOnline[c] = latest[c].is_online

PermutationOfInput ==
  rankResult.status \notin {"none", "pending"}
  => /\ rankResult.status = "returned"
     /\ Len(rankResult.value) = Len(rankArgs.helpers)
     /\ \A h \in 1..Len(rankArgs.helpers) :
          \E i \in 1..Len(rankResult.value) :
            /\ rankResult.value[i].id = rankArgs.helpers[h].id
            /\ rankResult.value[i].location = rankArgs.helpers[h].location

\* C31: a handleRequestSupport call that ends with an error toast, 'Please
\* enter a message' or 'Failed to send support request', leaves the typed
\* message and the selected helper as they are and adds no request; the
\* dialog is emptied only in the step that adds the request
FailedRequestKeepsInput ==
  [][/\ \A c \in Clients :
          ( /\ toast'[c] # toast[c]
            /\ toast'[c] \in {"Please enter a message",
                              "Failed to send support request"} )
          => /\ supportMessage'[c] = supportMessage[c]
             /\ selectedHelper'[c] = selectedHelper[c]
             /\ support_requests' = support_requests
     /\ \A k \in CallIds :
          ( /\ calls[k].op = "request" /\ calls'[k].op = "none"
            /\ support_requests' = support_requests )
          => /\ toast'[calls[k].client] = "Failed to send support request"
             /\ supportMessage' = supportMessage
             /\ selectedHelper' = selectedHelper
     /\ \A c \in Clients :
          ( \/ (supportMessage[c] # Empty /\ supportMessage'[c] = Empty)
            \/ (selectedHelper[c] # NoUser /\ selectedHelper'[c] = NoUser) )
          => /\ Len(support_requests') = Len(support_requests) + 1
             /\ support_requests'[Len(support_requests')].seeker_id = userProfile[c]]_vars

\* C31 witness: the store has refused the seeker's request; the dialog still
\* holds the message and the helper, and no request is stored
FailedRequestKeepsInput_witness ==
  /\ toast["cs"] = "Failed to send support request"
  /\ supportMessage["cs"] = <<"a", " ">>
  /\ selectedHelper["cs"] = "h1"
  /\ ~loading["cs"]
  /\ support_requests = << >>
  /\ \A k \in CallIds : calls[k].op = "none"

\* C32: no stored profile has role seeker together with is_available true:
\* neither a profile that the sign-up trigger has inserted, whatever the form
\* held when it was submitted, nor a profile after an availability toggle
NoAvailableSeeker ==
  /\ newUser.status = "created"
     => ~(newUser.profile.role = "seeker" /\ newUser.profile.is_available)
  /\ \A u \in Users : Role(u) = "seeker" => ~profiles[u].is_available

\* C32 witness: the box was ticked as a helper, the role switched back to
\* seeker, and the form submitted with isAvailable still true; the trigger has
\* stored the seeker's profile, and a helper has toggled availability on
NoAvailableSeeker_witness ==
  /\ newUser.status = "created"
  /\ newUser.raw_user_meta_data.role = "seeker"
  /\ newUser.raw_user_meta_data.is_available
  /\ newUser.profile.role = "seeker"
  /\ \E u \in Helpers : profiles[u].is_available

\* C33: while no accept call is in progress, every support request whose
\* status is accepted has a chat whose participants are its seeker and its
\* helper, also after a failure of the chat lookup or of the chat insert
AcceptedHasChat ==
  (\A k \in CallIds : calls[k].op # "accept")
  => \A i \in 1..Len(support_requests) :
       support_requests[i].status = "accepted"
       => \E j \in 1..Len(chats) :
            Participants(chats[j]) =
              {support_requests[i].seeker_id, support_requests[i].helper_id}

\* C34: when a send ends by reporting failure (the error toast, the call
\* over, the text back in the input of a window that is still mounted), the
\* attempt had not yet inserted its message: the call was not past its insert
\* with a row of its chat, sender and text in the log
FailedSendLeftNoMessage ==
  [][\A k \in CallIds :
       (/\ calls[k].op = "send"
        /\ calls'[k] = IdleCall
        /\ toast'[calls[k].client] = "Failed to send message. Please try again."
        /\ chats' = chats
        /\ calls[k].mounted => newMessage'[calls[k].client] = calls[k].msg)
       => ~(/\ calls[k].pc = "update"
            /\ \E i \in 1..Len(messages') :
                 /\ messages'[i].chat_id = calls[k].chatId
                 /\ messages'[i].sender_id = calls[k].self
                 /\ messages'[i].text = calls[k].msg)]_vars

\* C35: when no send into a chat is in progress and every message of the chat
\* was followed by its snapshot write (each send completed successfully), the
\* chat's last_message is the text of a message that no other message of the
\* chat is later than
SnapshotIsLastMessage ==
  \A i \in 1..Len(chats) :
    LET sent == {m \in 1..Len(messages) : messages[m].chat_id = i}
    IN (/\ sent # {}
        /\ \A k \in CallIds : ~(calls[k].op = "send" /\ calls[k].chatId = i)
        /\ chats[i].last_message_time = Cardinality(sent))
       => \E m \in sent :
            /\ \A n \in sent : messages[n].created_at <= messages[m].created_at
            /\ messages[m].text = chats[i].last_message

\* C36: the message list that a ChatWindow displays never holds the same
\* message id twice, however the response of the history fetch and the
\* realtime INSERT callbacks interleave
NoDuplicateMessage ==
  \A c \in Clients :
    \A i, j \in 1..Len(chatMessages[c]) :
      chatMessages[c][i] = chatMessages[c][j] => i = j

\* C37: for a user who is signed in, whose presence effect has run for the
\* current profile and none of whose presence writes is still in flight, the
\* stored is_online is true
OnlineOnceWritesLanded ==
  \A c \in Clients :
    (/\ userProfile[c] # NoUser
     /\ tracked[c] = userProfile[c]
     /\ \A k \in CallIds :
          ~(/\ calls[k].op \in {"online", "offline", "beforeunload", "cleanup",
                                "mount", "logout"}
            /\ calls[k].self = userProfile[c]))
    => profiles[userProfile[c]].is_online

\* C38: once logout has completed on a browser (signed out, the effect's
\* cleanup has run) and none of that browser's presence writes is still in
\* flight, the stored is_online of the user who was signed in there is false
OfflineAfterLogout ==
  \A c \in Clients :
    (/\ lastTrigger[c] = "logout"
     /\ userProfile[c] = NoUser
     /\ tracked[c] = NoUser
     /\ \A k \in CallIds :
          ~(/\ calls[k].op \in {"online", "offline", "beforeunload", "cleanup",
                                "mount", "logout"}
            /\ calls[k].client = c))
    => ~profiles[IF c = "cs" THEN "s1" ELSE "h1"].is_online

====
